---- MODULE Spec2Model ----
(***************************************************************************)
(* Model of the download routine of stream2segment                        *)
(* (src/stream2segment/download/main.py): the driver `run`, the planner   *)
(* `prepare_for_download` and the waveform downloader                     *)
(* `download_save_segments`, over the Segment table of the database.      *)
(*                                                                         *)
(* Data frames are sequences of records (a row's position is its pandas   *)
(* index).  Times are integers counting half seconds, so that rounding to *)
(* the nearest second is a real operation.  None / NaN / NaT are NULL.    *)
(***************************************************************************)
EXTENDS Integers, Sequences, FiniteSets, TLC

VARIABLES
    pc,             \* position of the driver `run` (or of the function under check)
    cfg,            \* the arguments of `run`: retry flags, timespan, inventory, ...
    world,          \* the answers the dataselect services give in this world
    staDb,          \* the Station table: a set of rows
    responses,      \* what the remote services answered to this run so far
    prev,           \* what they answered to the run before, and how it ended
    segDb,          \* the Segment table: a set of rows
    nextId,         \* the autoincrement value of Segment.id
    eidavalidator,  \* NULL, or the data centers the routing service names for the station
    channels_df,    \* the data frame get_channels_df returned
    candidates,     \* the data frame merge_events_stations returned
    plan,           \* the data frame prepare_for_download returned
    segments_df,    \* download_save_segments: the frame of the current pass
    update_tb,      \* request_timebounds_need_update, as returned by the planner
    download_id,    \* Download.id of the current run
    dbbufsize,      \* the buffer size handed to the DB-writing stages
    group_idx,      \* download_save_segments: position in `groupsby` (0: not in the loop)
    itr,            \* the request groups read_async has not yielded yet
    emitted,        \* the results the current read_async has yielded
    skipped_dataframes,  \* rows deferred on HTTP 413
    segmanager,     \* the DbManager of the Segment table: buffers and counters
    stats,          \* DownloadStats: (data center, code) -> count
    added,          \* every row handed to segmanager.add, in order
    exit_code,      \* what `run` returned (NULL while running)
    dcDb,           \* the DataCenter table: a set of rows
    datacenters_df, \* the data frame get_datacenters_df returned
    routing,        \* the service asked for and what the routing service answered
    web_cha_df,     \* save_stations_and_channels: the frame of the web responses
    sta_df,         \* save_stations_and_channels: the station rows handed to the sync
    isin_calls,     \* the calls of eidavalidator.isin: (data center, station, channel)
    nslc,           \* get_channels_df: the lists net, sta, loc, cha of the filter
    postdata,       \* what get_post_data returned
    purged,         \* the rows of a station service left by the post-filter
    from_db,        \* the rows get_channels_df_from_db selected
    sys_exit,       \* the exit status of the command `download` (NULL: not exited)
    events_df,      \* merge_events_stations: the ids of the events, in their order
    iterable,       \* read_async: the tags of the input items, 1..n in their order
    max_mem_consumption,  \* read_async: the memory threshold, in percent
    urlerrors,      \* the tags of the items whose read meets a URLError
    next_unit,      \* the first work unit no worker has taken yet
    running,        \* the work units a worker is reading
    ready,          \* the results the workers returned, not yet handled by the driver
    delivered,      \* the results given to the consumer
    ncalls,         \* how many results were given to the consumer
    cancelled,      \* the work units reported as cancelled
    discarded,      \* the work units whose result was dropped
    kill,           \* the consumer asked to stop
    samples,        \* the samples of the process memory: after which result, percent
    check_due,      \* the consumer has asked for the result after a result to sample at
    callers         \* the callbacks of the consumer that ran, with the thread they ran on

vars == <<pc, cfg, world, staDb, responses, prev, segDb, nextId, eidavalidator,
          channels_df, candidates, plan,
          segments_df, update_tb, download_id, dbbufsize, group_idx, itr, emitted,
          skipped_dataframes, segmanager, stats, added, exit_code, dcDb,
          datacenters_df, routing, web_cha_df, sta_df, isin_calls, nslc, postdata,
          purged, from_db, sys_exit, events_df, iterable, max_mem_consumption,
          urlerrors, next_unit, running, ready, delivered, ncalls, cancelled,
          discarded, kill, samples, check_due, callers>>

\* the data center stage
routingVars == <<dcDb, datacenters_df, routing>>

\* the asynchronous fetcher
fetchVars == <<iterable, max_mem_consumption, urlerrors, next_unit, running, ready,
               delivered, ncalls, cancelled, discarded, kill, samples, check_due,
               callers>>

\* the variables of the other functions checked on their own
extVars == <<events_df, fetchVars>>

\* the variables of the functions of the channels stage checked on their own
unitVars == <<web_cha_df, sta_df, isin_calls, nslc, postdata, purged, from_db, extVars>>

----------------------------------------------------------------------------
(* Values *)

\* None, NaN and NaT of the data frames and NULL of the database
\* what the stages of run before the planner read and write
stageVars == <<world, staDb, responses, prev, eidavalidator, channels_df, candidates>>

NULL == -999

\* custom_download_codes(): (url_err, mseed_err, timespan_err, timespan_warn)
URLERR_CODE == -1
MSEEDERR_CODE == -2
OUTTIME_ERR == -204
OUTTIME_WARN == -200

\* timedelta(minutes=1) in half seconds
HalfSecPerMin == 120

\* the arguments retry_* of prepare_for_download
RetryFlags == {"seg_not_found", "url_err", "mseed_err", "client_err", "server_err",
               "timespan_err", "timespan_warn"}

----------------------------------------------------------------------------
(* Bounds *)

\* at most this many retry flags are enabled in a configuration
MaxRetryFlags == 2

\* download codes a stored segment is drawn with
CodeSamples == {NULL, URLERR_CODE, MSEEDERR_CODE, OUTTIME_ERR, OUTTIME_WARN,
                200, 413, 499, 500, 599}

\* the (pre, post) arrival offsets in minutes a configuration is drawn with
TimespanSamples == {<<1, 1>>, <<1, 2>>}

\* the number of events of the world
MaxEvents == 3

ChannelIds == {1, 2}
EventIds == 1..MaxEvents
DcIds == {1, 2}

\* Event.time (half seconds) of the events of the catalog
EvTime(evt) == 1000 + (evt - 1) * (evt - 1)

\* tttable(depth, 0, distance): the travel time (half seconds) to the station of a channel
TravelTime(cha, evt) == 3 + cha

----------------------------------------------------------------------------
(* prepare_for_download *)

\* Series.dt.round('s'): nearest second, a half to the even second (numpy)
RoundS(t) ==
    IF t % 2 = 0 THEN t
    ELSE IF ((t - 1) \div 2) % 2 = 0 THEN t - 1 ELSE t + 1

\* tstart, tend of a row for a timespan
Tstart(arrival, timespan) == RoundS(arrival - timespan[1] * HalfSecPerMin)
Tend(arrival, timespan) == RoundS(arrival + timespan[2] * HalfSecPerMin)

\* the mask with the client errors taken up to 599
RetryMask_ClientTo599(flags, code) ==
    \/ "seg_not_found" \in flags /\ code = NULL
    \/ "url_err" \in flags /\ code = URLERR_CODE
    \/ "mseed_err" \in flags /\ code = MSEEDERR_CODE
    \/ "client_err" \in flags /\ code # NULL /\ code >= 400 /\ code <= 599
    \/ "server_err" \in flags /\ code # NULL /\ code >= 500 /\ code <= 599
    \/ "timespan_err" \in flags /\ code = OUTTIME_ERR
    \/ "timespan_warn" \in flags /\ code = OUTTIME_WARN

\* mask, for one row of db_seg_df
RetryMask(flags, code) ==
    \/ "seg_not_found" \in flags /\ code = NULL
    \/ "url_err" \in flags /\ code = URLERR_CODE
    \/ "mseed_err" \in flags /\ code = MSEEDERR_CODE
    \/ "client_err" \in flags /\ code # NULL /\ code >= 400 /\ code <= 499
    \/ "server_err" \in flags /\ code # NULL /\ code >= 500 /\ code <= 599
    \/ "timespan_err" \in flags /\ code = OUTTIME_ERR
    \/ "timespan_warn" \in flags /\ code = OUTTIME_WARN

\* the rows of the Segment table matching a candidate on (channel_id, event_id)
Existing(db, row) ==
    {s \in db : s.channel_id = row.channel_id /\ s.event_id = row.event_id}

\* mergeupdate(segments_df, db_seg_df, [channel_id, event_id], [id, retry, start, end])
\* after the four columns were set to their defaults
MergeWithDb(db, df, flags) ==
    [i \in DOMAIN df |->
        LET ex == Existing(db, df[i]) IN
        IF ex = {}
        THEN [df[i] EXCEPT !.id = NULL] @@
             [retry |-> TRUE, request_start |-> NULL, request_end |-> NULL]
        ELSE LET s == CHOOSE s \in ex : TRUE IN
             [df[i] EXCEPT !.id = s.id] @@
             [retry |-> RetryMask(flags, s.download_code),
              request_start |-> s.request_start, request_end |-> s.request_end]]

\* retry_requests_timebounds, for one merged row
TimeboundsDiffer(row, timespan) ==
    /\ row.request_start # NULL
    /\ \/ row.request_start # Tstart(row.arrival_time, timespan)
       \/ row.request_end # Tend(row.arrival_time, timespan)

\* the data frame before the rows not to retry are dropped
Planned(db, df, timespan, flags) ==
    LET merged == MergeWithDb(db, df, flags)
        need == \E i \in DOMAIN merged : TimeboundsDiffer(merged[i], timespan)
    IN [i \in DOMAIN merged |->
           [merged[i] EXCEPT
              !.retry = IF need THEN @ \/ TimeboundsDiffer(merged[i], timespan) ELSE @,
              !.request_start = Tstart(merged[i].arrival_time, timespan),
              !.request_end = Tend(merged[i].arrival_time, timespan)]]

DropRetry(row) ==
    [f \in DOMAIN row \ {"retry"} |-> row[f]]

\* the planner with no row dropped
prepare_for_download_KeepAll(db, df, timespan, flags) ==
    LET merged == MergeWithDb(db, df, flags)
        planned == Planned(db, df, timespan, flags)
        kept == planned
    IN [segments_df |-> [i \in DOMAIN kept |-> DropRetry(kept[i])],
        update_tb |-> \E i \in DOMAIN merged : TimeboundsDiffer(merged[i], timespan)]

\* the value returned by prepare_for_download; an empty frame raises QuitDownload(str)
prepare_for_download(db, df, timespan, flags) ==
    LET merged == MergeWithDb(db, df, flags)
        planned == Planned(db, df, timespan, flags)
        kept == SelectSeq(planned, LAMBDA r : r.retry)
    IN [segments_df |-> [i \in DOMAIN kept |-> DropRetry(kept[i])],
        update_tb |-> \E i \in DOMAIN merged : TimeboundsDiffer(merged[i], timespan)]

----------------------------------------------------------------------------
(* DbManager of the Segment table *)

NewManager ==
    [inserts |-> <<>>, updates |-> <<>>,
     inserted |-> 0, not_inserted |-> 0, updated |-> 0, not_updated |-> 0]

\* the columns of a data frame row which the Segment table stores
DbRow(row, id) ==
    [id |-> id, channel_id |-> row.channel_id, event_id |-> row.event_id,
     datacenter_id |-> row.datacenter_id,
     request_start |-> row.request_start, request_end |-> row.request_end,
     download_code |-> row.download_code, data |-> row.data,
     download_id |-> row.download_id]

\* INSERT of the buffered rows, one autoincrement id each; a row whose
\* (channel_id, event_id) is stored already violates the unique constraint and is
\* discarded alone.  st = [db, nextId, m]
RECURSIVE InsertRows(_, _)
InsertRows(st, rows) ==
    IF rows = <<>> THEN st
    ELSE LET r == Head(rows) IN
         IF Existing(st.db, r) # {}
         THEN InsertRows([st EXCEPT !.m.not_inserted = @ + 1], Tail(rows))
         ELSE InsertRows([st EXCEPT !.db = @ \cup {DbRow(r, st.nextId)},
                                    !.nextId = @ + 1,
                                    !.m.inserted = @ + 1], Tail(rows))

\* colnames2update of download_save_segments, applied to a stored row
UpdatedRow(s, r, with_timebounds) ==
    [s EXCEPT !.download_id = r.download_id, !.data = r.data,
              !.download_code = r.download_code,
              !.request_start = IF with_timebounds THEN r.request_start ELSE @,
              !.request_end = IF with_timebounds THEN r.request_end ELSE @]

\* UPDATE of the buffered rows by Segment.id
RECURSIVE UpdateRows(_, _, _)
UpdateRows(st, rows, with_timebounds) ==
    IF rows = <<>> THEN st
    ELSE LET r == Head(rows)
             hit == {s \in st.db : s.id = r.id}
         IN IF hit = {}
            THEN UpdateRows([st EXCEPT !.m.not_updated = @ + 1], Tail(rows),
                            with_timebounds)
            ELSE UpdateRows(
                   [st EXCEPT !.db = (@ \ hit) \cup
                                      {UpdatedRow(s, r, with_timebounds) : s \in hit},
                              !.m.updated = @ + 1],
                   Tail(rows), with_timebounds)

\* DbManager.flush (and close): write both buffers
Flush(st, with_timebounds) ==
    LET a == InsertRows([st EXCEPT !.m.inserts = <<>>], st.m.inserts)
    IN UpdateRows([a EXCEPT !.m.updates = <<>>], a.m.updates, with_timebounds)

\* DbManager.add: buffer the rows, new ones apart from stored ones, and write a
\* buffer as soon as it holds buf_size rows
Add(st, df, buf_size, with_timebounds) ==
    LET ins == st.m.inserts \o SelectSeq(df, LAMBDA r : r.id = NULL)
        upd == st.m.updates \o SelectSeq(df, LAMBDA r : r.id # NULL)
        a == IF Len(ins) >= buf_size /\ ins # <<>>
             THEN InsertRows([st EXCEPT !.m.inserts = <<>>], ins)
             ELSE [st EXCEPT !.m.inserts = ins]
    IN IF Len(upd) >= buf_size /\ upd # <<>>
       THEN UpdateRows([a EXCEPT !.m.updates = <<>>], upd, with_timebounds)
       ELSE [a EXCEPT !.m.updates = upd]

----------------------------------------------------------------------------
(* download_save_segments *)

\* what a dataselect service answers with an error status
HttpErrCodes == {413, 500}
\* the status of a served request
HttpOk == 200

\* what mseedunpack reports for one channel of a response: no record, a record with
\* a decoder error, a record in the requested window, a record out of it with data,
\* a record out of it without data
RecordKinds == {"missing", "err", "ok", "warn_data", "out_nodata"}

\* len(groupsby)
NumGroupsBy == 2

\* groupsby[group_idx] of a row
GroupKey(idx, r) ==
    IF idx = 1
    THEN <<r.datacenter_id, r.request_start, r.request_end>>
    ELSE <<r.datacenter_id, r.request_start, r.request_end, r.channel_id>>

\* segments_df.groupby(group_): the keys, and the sub-frame of a key
Groups(df, idx) == {GroupKey(idx, df[i]) : i \in DOMAIN df}
GroupDf(df, idx, key) == SelectSeq(df, LAMBDA r : GroupKey(idx, r) = key)

\* the results read_async may yield for the request of a group: a transport error
\* (exc), an HTTP error status, an empty body, a body mseedunpack rejects as a
\* whole, or a body with one record kind per requested channel
Responses(df, w) ==
    {[kind |-> k, code |-> IF k = "exc" THEN NULL ELSE HttpOk, resdict |-> <<>>] :
        k \in w.kinds \cap {"exc", "empty", "mseed_exc"}}
    \cup {[kind |-> "http", code |-> c, resdict |-> <<>>] : c \in w.codes}
    \cup {[kind |-> "mseed", code |-> HttpOk, resdict |-> d] :
             d \in [{df[i].channel_id : i \in DOMAIN df} -> w.records]}

\* every answer; and the answers of the world the driver is run in: transport
\* errors, 413, and bodies with a record in the window or none for a channel
AnyAnswer ==
    [kinds |-> {"exc", "empty", "mseed_exc"}, codes |-> HttpErrCodes,
     records |-> RecordKinds]
FewAnswers ==
    [kinds |-> {"exc"}, codes |-> {413}, records |-> {"ok", "missing"}]

\* the test with the size of the group left out; with `islast` left out
Deferred_NoSize(resp, df, islast) ==
    resp.code = 413 /\ ~islast

Deferred_AnyPass(resp, df, islast) ==
    resp.code = 413 /\ Len(df) > 1

\* `code == 413 and len(df) > 1 and not islast`: the group is kept for the next pass
Deferred(resp, df, islast) ==
    resp.code = 413 /\ Len(df) > 1 /\ ~islast

\* df with the columns of SEG_COLNAMES at their defaults and the download id set
WithDefaults(df, did) ==
    [i \in DOMAIN df |->
        df[i] @@ [download_code |-> NULL, data |-> "none", download_id |-> did]]

\* the code set on the first row only
SetAllCodes_FirstRow(df, code) ==
    [i \in DOMAIN df |-> IF i = 1 THEN [df[i] EXCEPT !.download_code = code] ELSE df[i]]

\* df.loc[:, SEG_DSCODE] = code
SetAllCodes(df, code) ==
    [i \in DOMAIN df |-> [df[i] EXCEPT !.download_code = code]]

\* stats[url][code] += n
StatsAdd(st, dc, code, n) ==
    IF n = 0 THEN st
    ELSE IF <<dc, code>> \in DOMAIN st
         THEN [st EXCEPT ![<<dc, code>>] = @ + n]
         ELSE st @@ (<<dc, code>> :> n)

\* the loop over the rows of df after mseedunpack, from row i on.
\* a = [df, code, stats, oks, errors, outtime_warns, outtime_errs]: `code` is the
\* local variable of the function, which the loop reads and assigns
RECURSIVE UnpackLoop(_, _, _, _)
UnpackLoop(a, i, resdict, dc) ==
    IF i > Len(a.df) THEN a
    ELSE LET kind == resdict[a.df[i].channel_id] IN
         IF kind = "missing" THEN UnpackLoop(a, i + 1, resdict, dc)
         ELSE IF kind = "err"
         THEN UnpackLoop([a EXCEPT !.df[i].download_code = MSEEDERR_CODE,
                                   !.stats = StatsAdd(@, dc, MSEEDERR_CODE, 1),
                                   !.errors = @ + 1],
                         i + 1, resdict, dc)
         ELSE LET code == IF kind = "warn_data" THEN OUTTIME_WARN
                          ELSE IF kind = "out_nodata" THEN OUTTIME_ERR
                          ELSE a.code
              IN UnpackLoop(
                   [a EXCEPT !.code = code,
                             !.df[i].download_code = code,
                             !.df[i].data = IF kind = "out_nodata" THEN "empty"
                                            ELSE "bytes",
                             !.oks = IF kind = "ok" THEN @ + 1 ELSE @,
                             !.outtime_warns = IF kind = "warn_data" THEN @ + 1 ELSE @,
                             !.outtime_errs = IF kind = "out_nodata" THEN @ + 1 ELSE @],
                   i + 1, resdict, dc)

\* the body of the loop `for df, result, exc, request in itr` from `df = df.copy()`
\* to the row before segmanager.add: the frame to add and the statistics
ProcessResult(df0, resp, dc, did, st) ==
    LET df == WithDefaults(df0, did) IN
    IF resp.kind = "exc"
    THEN [df |-> SetAllCodes(df, URLERR_CODE),
          stats |-> StatsAdd(st, dc, URLERR_CODE, Len(df))]
    ELSE IF resp.code >= 400
    THEN [df |-> SetAllCodes(df, resp.code),
          stats |-> StatsAdd(st, dc, resp.code, Len(df))]
    ELSE IF resp.kind = "empty"
    THEN [df |-> [i \in DOMAIN df |->
                    [df[i] EXCEPT !.data = "empty", !.download_code = resp.code]],
          stats |-> StatsAdd(st, dc, resp.code, Len(df))]
    ELSE IF resp.kind = "mseed_exc"
    THEN [df |-> SetAllCodes(df, MSEEDERR_CODE),
          stats |-> StatsAdd(st, dc, MSEEDERR_CODE, Len(df))]
    ELSE LET a == UnpackLoop([df |-> df, code |-> resp.code, stats |-> st, oks |-> 0,
                              errors |-> 0, outtime_warns |-> 0, outtime_errs |-> 0],
                             1, resp.resdict, dc)
             s1 == StatsAdd(a.stats, dc, a.code, a.oks)
             s2 == StatsAdd(s1, dc, a.code, a.outtime_errs)
             s3 == StatsAdd(s2, dc, a.code, a.outtime_warns)
             unknowns == Len(df) - a.oks - a.errors - a.outtime_errs - a.outtime_warns
         IN [df |-> a.df, stats |-> StatsAdd(s3, dc, NULL, unknowns)]

----------------------------------------------------------------------------
(* merge_events_stations *)

\* timedelta(days=1) in half seconds
HalfSecPerDay == 172800

\* get_search_radius of the magnitude of an event, and locations2degrees of an event
\* and a station (degrees): the events of the catalog are 1 degree from every station
MaxRadius(evt) == 5
DistDeg(evt, sta) == 1

\* `condition` with a station that must end after the day following the event
InSearchArea_EndsAfter(evt, ch) ==
    /\ DistDeg(evt, ch.station_id) <= MaxRadius(evt)
    /\ ch.start_time <= EvTime(evt)
    /\ (ch.end_time = NULL \/ ch.end_time > EvTime(evt) + HalfSecPerDay)

\* `condition`, for one event and one row of the channel frame
InSearchArea(evt, ch) ==
    /\ DistDeg(evt, ch.station_id) <= MaxRadius(evt)
    /\ ch.start_time <= EvTime(evt)
    /\ (ch.end_time = NULL \/ ch.end_time >= EvTime(evt) + HalfSecPerDay)

\* the rows appended to `ret` for the events from position k of events_df on: every
\* row of the channel frame whose station passes `condition`, in its order
RECURSIVE MergeRows(_, _, _)
MergeRows(events, k, channels) ==
    IF k > Len(events) THEN <<>>
    ELSE LET evt == events[k]
             cha_df == SelectSeq(channels, LAMBDA ch : InSearchArea(evt, ch))
         IN [i \in DOMAIN cha_df |->
                [channel_id |-> cha_df[i].id, event_id |-> evt,
                 datacenter_id |-> cha_df[i].datacenter_id,
                 arrival_time |-> EvTime(evt) + TravelTime(cha_df[i].id, evt)]]
            \o MergeRows(events, k + 1, channels)

\* the frame returned (pd.concat with ignore_index): `row` is the index label
merge_events_stations(events, channels) ==
    LET ret == MergeRows(events, 1, channels)
    IN [i \in DOMAIN ret |-> ret[i] @@ [row |-> i, id |-> NULL]]

----------------------------------------------------------------------------
(* get_channels_df, for a network of one station with one channel which any of the
   data centers may serve *)

\* a row of the frame get_channels_df returns: a channel of a station open since
\* time 0, as served by a data center
ChannelRow(cha, dc) ==
    [id |-> cha, station_id |-> cha, datacenter_id |-> dc, start_time |-> 0,
     end_time |-> NULL]

\* eidavalidator is None, or it names the data centers the routing service gives for
\* the station: <<>> and <<dcs>>
NoValidator == <<>>

\* what a station service may answer: an error, the channel of the station, the
\* channel of the station with a sample rate below a positive min_sample_rate
StationAnswers == {"fail", "sta", "low"}

\* the smallest element of a set of ids
MinOf(S) == CHOOSE x \in S : \A y \in S : x <= y

\* the ids of S in increasing order
RECURSIVE Sorted(_)
Sorted(S) == IF S = {} THEN <<>> ELSE <<MinOf(S)>> \o Sorted(S \ {MinOf(S)})

\* the stations of the network; a station stands for its (network, station,
\* start_time), a channel for its (location, channel)
StationKeys == {1, 2}

\* Channel.id as the sync of the channels gives it to a channel of a stored station
ChannelId(station_id, cha) == (station_id - 1) * Cardinality(ChannelIds) + cha

\* eidavalidator.isin(d, n, s, l, c): the routing service names the channel for the
\* data center
isin(validator, d, c) == <<d, c>> \in validator[1]

\* channels_df.drop_duplicates(subset=[net, sta, stime, dcid]): the index of the
\* first row of every station and data center
DropDuplicates(df) ==
    {i \in DOMAIN df : \A j \in 1..(i - 1) :
        df[j].station # df[i].station \/ df[j].datacenter_id # df[i].datacenter_id}

\* every station row taken as a duplicate
duplicated_Every(df, I) == I

\* sta_df.duplicated(subset=[net, sta, stime], keep=False), I being the index of
\* sta_df
duplicated(df, I) == {i \in I : \E j \in I \ {i} : df[j].station = df[i].station}

\* the rows of D for which isin, called with the channel of the station row, is true
Accepted(df, D, validator) ==
    {i \in D : isin(validator, df[i].datacenter_id, df[i].channel)}

\* the loop over a group without its `break`
keep_indices_NoBreak(df, D, validator) == Accepted(df, D, validator)

\* keep_indices: of every group of D with the same station, sorted by data center,
\* the first row for which isin is true
keep_indices(df, D, validator) ==
    {i \in Accepted(df, D, validator) :
        \A j \in Accepted(df, D, validator) :
            df[j].station = df[i].station => df[i].datacenter_id <= df[j].datacenter_id}

\* the rows isin is called with: those of a group up to the row that is kept
IsinRows(df, D, validator) ==
    {i \in D : \A j \in keep_indices(df, D, validator) :
        df[j].station = df[i].station => df[i].datacenter_id <= df[j].datacenter_id}

\* sta_df_dupes, the duplicates to drop: with a validator those not kept, with none
\* those the Station table does not hold under their data center
sta_df_dupes(db, df, D, validator) ==
    IF validator # NoValidator
    THEN D \ keep_indices(df, D, validator)
    ELSE {i \in D : ~\E t \in db : /\ t.station = df[i].station
                                   /\ t.datacenter_id = df[i].datacenter_id}

\* the columns to update without the exclusion of the inventory
update_stations_All(update, cols) == IF update THEN cols ELSE {}

\* _update_stations: no column, or with `update` the columns the frame shares with
\* Station but inventory_xml
update_stations(update, cols) == IF update THEN cols \ {"inventory_xml"} ELSE {}

\* the sync of the stations on (network, station, start_time), rows being the index
\* of the rows of df to write, in order: a station not in the table is inserted with
\* the next id and no inventory, a stored one gets the columns to update from the
\* frame (whose inventory_xml, when it has the column, is null)
RECURSIVE SyncStations(_, _, _, _)
SyncStations(db, df, rows, ucols) ==
    IF rows = <<>> THEN db
    ELSE LET r == df[Head(rows)]
             old == {t \in db : t.station = r.station}
             upd(t) == [t EXCEPT
                          !.datacenter_id = IF "datacenter_id" \in ucols
                                            THEN r.datacenter_id ELSE @,
                          !.inventory_xml = IF "inventory_xml" \in ucols
                                            THEN FALSE ELSE @]
             db1 == IF old = {}
                    THEN db \cup {[id |-> Cardinality(db) + 1, station |-> r.station,
                                   datacenter_id |-> r.datacenter_id,
                                   inventory_xml |-> FALSE]}
                    ELSE (db \ old) \cup {upd(t) : t \in old}
         IN SyncStations(db1, df, Tail(rows), ucols)

\* save_stations_and_channels: the station rows left after the duplicates are
\* dropped go to the sync of the stations (dbsyncdf raises when none is left); the
\* channels of a station and data center that were not dropped get the station id
\* and go to the sync of the channels, which returns them with their id
save_stations_and_channels(db, df, validator, update, cols) ==
    LET I == DropDuplicates(df)
        D == duplicated(df, I)
        S == I \ sta_df_dupes(db, df, D, validator)
        db1 == SyncStations(db, df, Sorted(S), update_stations(update, cols))
        saved == SelectSeq(df, LAMBDA r : \E i \in S :
                                 /\ df[i].station = r.station
                                 /\ df[i].datacenter_id = r.datacenter_id)
        staid(r) == (CHOOSE t \in db1 : t.station = r.station).id
    IN [raised |-> S = {},
        df |-> IF S = {} THEN <<>>
               ELSE [k \in DOMAIN saved |->
                        [id |-> ChannelId(staid(saved[k]), saved[k].channel),
                         station_id |-> staid(saved[k]),
                         datacenter_id |-> saved[k].datacenter_id,
                         start_time |-> 0, end_time |-> NULL]],
        staDb |-> IF S = {} THEN db ELSE db1,
        sta_df |-> {[index |-> i, station |-> df[i].station,
                     datacenter_id |-> df[i].datacenter_id] : i \in S},
        isin_calls |-> IF validator = NoValidator THEN {}
                       ELSE {<<df[i].datacenter_id, df[i].station, df[i].channel>> :
                                i \in IsinRows(df, D, validator)}]

\* the frame of the web responses of the data centers W, which all return channel 1
\* of station 1
WebFrame(W) ==
    [i \in DOMAIN Sorted(W) |->
        [station |-> 1, datacenter_id |-> Sorted(W)[i], channel |-> 1]]

\* get_channels_df after the loop over the answers r of the data centers: the rows
\* of the data base for the data centers that failed are read first; the web rows
\* below min_sample_rate are discarded, the others are saved, and the two frames are
\* concatenated.  `iserror` tells how the QuitDownload raised was built: with an
\* Exception, or with a message
get_channels_df(db, r, validator, update, min_sample_rate) ==
    LET failed == {d \in DOMAIN r : r[d] = "fail"}
        ret == {d \in DOMAIN r : r[d] # "fail"}
        W == IF min_sample_rate > 0 THEN {d \in ret : r[d] # "low"} ELSE ret
        dbdcs == {t.datacenter_id : t \in {u \in db : u.datacenter_id \in failed}}
        db_cha_df == [i \in DOMAIN Sorted(dbdcs) |-> ChannelRow(1, Sorted(dbdcs)[i])]
        unsaved == [i \in DOMAIN Sorted(W) |->
                       [ChannelRow(1, Sorted(W)[i]) EXCEPT !.id = NULL,
                                                          !.station_id = NULL]]
        sv == save_stations_and_channels(db, WebFrame(W), validator, update,
                                         {"datacenter_id"})
    IN IF ret = {}
       THEN [raised |-> db_cha_df = <<>>, iserror |-> TRUE, df |-> db_cha_df,
             staDb |-> db]
       ELSE IF W = {} /\ db_cha_df = <<>>
       THEN [raised |-> TRUE, iserror |-> FALSE, df |-> <<>>, staDb |-> db]
       ELSE IF sv.raised
       THEN [raised |-> db_cha_df = <<>>, iserror |-> TRUE, df |-> unsaved \o db_cha_df,
             staDb |-> db]
       ELSE [raised |-> FALSE, iserror |-> FALSE, df |-> sv.df \o db_cha_df,
             staDb |-> sv.staDb]

----------------------------------------------------------------------------
(* The driver: planning and download *)

\* the rows handed to segmanager.add, each with the result it was classified from:
\* the pass and the group of its request, the size of the group, the kind and the
\* status of the response and the record kind of its channel
Logged(df, resp, idx, key) ==
    [i \in DOMAIN df |->
        df[i] @@ [pass |-> idx, key |-> key, glen |-> Len(df), resp |-> resp.kind,
                  http |-> resp.code,
                  record |-> IF resp.kind = "mseed" THEN resp.resdict[df[i].channel_id]
                             ELSE "none"]]

\* read_async: the memory is sampled after the first of every check_mem_step results
check_mem_step == 10

\* run, from the call of prepare_for_download to the first request of
\* download_save_segments; an empty plan raises QuitDownload with a message, which
\* run logs as information (exit code 0) before it goes on with the inventories
RunPrepare ==
    /\ pc = "prepare"
    /\ LET out == prepare_for_download(segDb, candidates, cfg.timespan, cfg.retry)
       IN /\ plan' = out.segments_df
          /\ segments_df' = out.segments_df
          /\ update_tb' = out.update_tb
          /\ IF out.segments_df = <<>>
             THEN /\ pc' = IF cfg.inventory THEN "inventory" ELSE "returned"
                  /\ exit_code' = IF cfg.inventory THEN exit_code ELSE 0
                  /\ group_idx' = 0
                  /\ UNCHANGED itr
             ELSE /\ pc' = "download"
                  /\ group_idx' = 1
                  /\ itr' = Groups(out.segments_df, 1)
                  /\ UNCHANGED exit_code
    /\ emitted' = 0
    /\ skipped_dataframes' = <<>>
    /\ segmanager' = NewManager
    /\ stats' = <<>>
    /\ added' = <<>>
    /\ UNCHANGED <<sys_exit, routingVars, unitVars>>
    /\ UNCHANGED <<stageVars, cfg, segDb, nextId, download_id, dbbufsize>>

\* one turn of `for df, result, exc, request in itr`: read_async yields the result of
\* any request not answered yet; a 413 for a group of several rows is deferred in the
\* first pass, every other result is classified and handed to the DbManager
DSS_Result ==
    /\ pc = "download"
    /\ \E key \in itr :
         LET df == GroupDf(segments_df, group_idx, key)
             islast == group_idx = NumGroupsBy
         IN \E resp \in Responses(df, world) :
              /\ itr' = itr \ {key}
              /\ emitted' = emitted + 1
              /\ IF Deferred(resp, df, islast)
                 THEN /\ skipped_dataframes' = skipped_dataframes \o df
                      /\ UNCHANGED <<segDb, nextId, segmanager, stats, added>>
                 ELSE LET pr == ProcessResult(df, resp, key[1], download_id, stats)
                          st == Add([db |-> segDb, nextId |-> nextId, m |-> segmanager],
                                    pr.df, dbbufsize, update_tb)
                      IN /\ segDb' = st.db
                         /\ nextId' = st.nextId
                         /\ segmanager' = st.m
                         /\ stats' = pr.stats
                         /\ added' = added \o Logged(pr.df, resp, group_idx, key)
                         /\ UNCHANGED skipped_dataframes
    /\ UNCHANGED <<sys_exit, routingVars, unitVars>>
    /\ UNCHANGED <<stageVars, pc, cfg, plan, segments_df, update_tb, download_id,
                   dbbufsize, group_idx, exit_code>>

\* read_async resumes after the first of every check_mem_step results, finds the
\* memory above the threshold and raises QuitDownload(MemoryError); run logs it and
\* returns 1.  The rows still buffered in the DbManager are never written
DSS_MemoryAbort ==
    /\ pc = "download"
    /\ emitted % check_mem_step = 1
    /\ pc' = "returned"
    /\ exit_code' = 1
    /\ UNCHANGED <<sys_exit, routingVars, unitVars>>
    /\ UNCHANGED <<stageVars, cfg, segDb, nextId, plan, segments_df, update_tb,
                   download_id, dbbufsize, group_idx, itr, emitted, skipped_dataframes,
                   segmanager, stats, added>>

\* the end of the first pass with deferred rows: flush, and request the deferred rows
\* again, grouped by groupsby[1]
DSS_NextPass ==
    /\ pc = "download"
    /\ itr = {}
    /\ group_idx < NumGroupsBy
    /\ skipped_dataframes # <<>>
    /\ LET st == Flush([db |-> segDb, nextId |-> nextId, m |-> segmanager], update_tb)
       IN /\ segDb' = st.db
          /\ nextId' = st.nextId
          /\ segmanager' = st.m
    /\ segments_df' = skipped_dataframes
    /\ skipped_dataframes' = <<>>
    /\ group_idx' = group_idx + 1
    /\ itr' = Groups(skipped_dataframes, group_idx + 1)
    /\ emitted' = 0
    /\ UNCHANGED <<sys_exit, routingVars, unitVars>>
    /\ UNCHANGED <<stageVars, pc, cfg, plan, update_tb, download_id, dbbufsize, stats,
                   added, exit_code>>

\* the end of a pass with nothing deferred, or of the last pass: flush, close the
\* DbManager and return the statistics to run, which goes on with the inventories
DSS_Close ==
    /\ pc = "download"
    /\ itr = {}
    /\ (skipped_dataframes = <<>> \/ group_idx = NumGroupsBy)
    /\ LET st == Flush([db |-> segDb, nextId |-> nextId, m |-> segmanager], update_tb)
       IN /\ segDb' = st.db
          /\ nextId' = st.nextId
          /\ segmanager' = st.m
    /\ segments_df' = <<>>
    /\ group_idx' = 0
    /\ pc' = IF cfg.inventory THEN "inventory" ELSE "returned"
    /\ exit_code' = IF cfg.inventory THEN exit_code ELSE 0
    /\ UNCHANGED <<sys_exit, routingVars, unitVars>>
    /\ UNCHANGED <<stageVars, cfg, plan, update_tb, download_id, dbbufsize, itr, emitted,
                   skipped_dataframes, stats, added>>

----------------------------------------------------------------------------
(* get_datacenters_df.  A data center is known by its station url; the routing
   service answers with an error or with the urls of data centers, each with the
   channels of the station it names for it *)

\* the elements of a sequence
Range(f) == {f[i] : i \in DOMAIN f}

\* the data centers of the routing service, in the order of its response
EidaUrls == <<"eida1", "eida2">>

\* `service`: eida, iris, an fdsn url, and a string that is no fdsn url
Services == {"eida", "iris", "url", "nourl"}

\* what the routing service may answer: an error, or blocks of a url and the
\* channels named for it (no block at all: no data center in the response)
RoutingAnswers ==
    {a \in [err : BOOLEAN, urls : SUBSET Range(EidaUrls),
            named : SUBSET (Range(EidaUrls) \X ChannelIds)] :
        /\ a.err => a.urls = {}
        /\ \A n \in a.named : n[1] \in a.urls}

\* the routing service was not asked
NoAnswer == [err |-> FALSE, urls |-> {}, named |-> {}]
NoRouting == [service |-> "none", answer |-> NoAnswer]

\* dbsyncdf(dc_df, session, [DataCenter.station_url], DataCenter.id): a url not in
\* the table is inserted with the next id, a stored row is left as it is
RECURSIVE SyncDatacenters(_, _, _)
SyncDatacenters(db, urls, org) ==
    IF urls = <<>> THEN db
    ELSE LET u == Head(urls)
             db1 == IF \E r \in db : r.station_url = u THEN db
                    ELSE db \cup {[id |-> Cardinality(db) + 1, station_url |-> u,
                                   organization_name |-> org]}
         IN SyncDatacenters(db1, Tail(urls), org)

\* the id the table has for a url
DcId(db, url) == (CHOOSE r \in db : r.station_url = url).id

\* the frame of the rows of the table with the given ids, in the order of the id
DcFrame(db, ids) ==
    [i \in DOMAIN Sorted(ids) |->
        [id |-> Sorted(ids)[i],
         station_url |-> (CHOOSE r \in db : r.id = Sorted(ids)[i]).station_url]]

\* the query of the fallback with every row of the table
StoredEidaDatacenters_AllRows(db) == DcFrame(db, {r.id : r \in db})

\* the query of the fallback: the rows with organization_name == 'eida'
StoredEidaDatacenters(db) ==
    DcFrame(db, {r.id : r \in {t \in db : t.organization_name = "eida"}})

\* get_eida_datacenters_df: the urls of the response and the response text, or on
\* an error or a response with no data center the stored rows and no text;
\* QuitDownload when there is none
get_eida_datacenters_df(db, answer) ==
    LET dclist == SelectSeq(EidaUrls, LAMBDA u : u \in answer.urls)
        dc_df == StoredEidaDatacenters(db)
    IN IF ~answer.err /\ dclist # <<>>
       THEN [raised |-> FALSE, urls |-> dclist, df |-> <<>>, responsetext |-> TRUE]
       ELSE [raised |-> dc_df = <<>>, urls |-> <<>>, df |-> dc_df, responsetext |-> FALSE]

\* get_datacenters_df: the frame of the data centers to ask with their ids, the
\* validator (the pairs of data center id and channel the response names) and the
\* table after the sync
get_datacenters_df(db, service, answer) ==
    LET eida == get_eida_datacenters_df(db, answer)
        urls == IF service = "iris" THEN <<"iris">>
                ELSE IF service = "url" THEN <<"custom">>
                ELSE eida.urls
        org == IF service = "url" THEN "none" ELSE service
        db1 == SyncDatacenters(db, urls, org)
    IN IF service = "nourl" \/ (service = "eida" /\ eida.raised)
       THEN [raised |-> TRUE, df |-> <<>>, validator |-> NoValidator, db |-> db]
       ELSE IF service = "eida" /\ ~eida.responsetext
       THEN [raised |-> FALSE, df |-> eida.df, validator |-> NoValidator, db |-> db]
       ELSE [raised |-> FALSE,
             df |-> DcFrame(db1, {DcId(db1, u) : u \in Range(urls)}),
             validator |-> IF service = "eida"
                           THEN <<{<<DcId(db1, n[1]), n[2]>> : n \in answer.named}>>
                           ELSE NoValidator,
             db |-> db1]

----------------------------------------------------------------------------
(* The driver: the stages before the planner, and the inventories *)

\* the number of runs
MaxRuns == 2

\* the events the catalog returns to every run
Catalog == <<1, 2>>

\* nothing asked yet: the event service, the data center stage, the validator it
\* built, the station services, and whether the run got through the download
NoResponses ==
    [ev |-> "unasked", dc |-> "unasked", val |-> NoValidator,
     cha |-> [d \in DcIds |-> "unasked"], done |-> FALSE]

\* min(advanced_settings['db_buf_size'], 1)
DbBufSize(db_buf_size) == IF db_buf_size < 1 THEN db_buf_size ELSE 1

\* the caller adds the Download row and calls run with its id
RunStart ==
    /\ pc \in {"idle", "returned", "escaped", "invalid"}
    /\ download_id < MaxRuns
    /\ download_id' = download_id + 1
    /\ dbbufsize' = DbBufSize(cfg.db_buf_size)
    /\ pc' = "events"
    /\ exit_code' = NULL
    /\ prev' = [responses EXCEPT !.done = (pc # "idle" /\ exit_code = 0)]
    /\ responses' = NoResponses
    /\ eidavalidator' = NoValidator
    /\ channels_df' = <<>>
    /\ candidates' = <<>>
    /\ plan' = <<>>
    /\ segments_df' = <<>>
    /\ update_tb' = FALSE
    /\ group_idx' = 0
    /\ itr' = {}
    /\ emitted' = 0
    /\ skipped_dataframes' = <<>>
    /\ segmanager' = NewManager
    /\ stats' = <<>>
    /\ added' = <<>>
    /\ datacenters_df' = <<>>
    /\ routing' = NoRouting
    /\ UNCHANGED <<dcDb, unitVars>>
    /\ sys_exit' = NULL
    /\ UNCHANGED <<cfg, world, staDb, segDb, nextId>>

\* the variables of the planner and of download_save_segments
downloadVars == <<plan, segments_df, update_tb, group_idx, itr, emitted,
                  skipped_dataframes, segmanager, stats, added>>

\* get_events_df: the catalog answers, or QuitDownload(Exception) and run returns 1
RunEvents ==
    /\ pc = "events"
    /\ \E ans \in {"ok", "fail"} :
          /\ responses' = [responses EXCEPT !.ev = ans]
          /\ pc' = IF ans = "ok" THEN "datacenters" ELSE "returned"
          /\ exit_code' = IF ans = "ok" THEN exit_code ELSE 1
    /\ UNCHANGED <<sys_exit, routingVars, unitVars>>
    /\ UNCHANGED <<cfg, world, staDb, prev, segDb, nextId, eidavalidator, channels_df,
                   candidates, download_id, dbbufsize, downloadVars>>

\* what the routing service answers to a run: an error, or the two data centers
\* with the channels of the station named for the second
RunRoutingAnswers ==
    {[err |-> TRUE, urls |-> {}, named |-> {}],
     [err |-> FALSE, urls |-> Range(EidaUrls), named |-> {EidaUrls[2]} \X ChannelIds]}

\* get_datacenters_df with service eida: the data centers, with a validator or
\* (from the data base) with none, or QuitDownload(Exception) and run returns 1
RunDatacenters ==
    /\ pc = "datacenters"
    /\ \E answer \in RunRoutingAnswers :
          LET out == get_datacenters_df(dcDb, "eida", answer)
          IN /\ routing' = [service |-> "eida", answer |-> answer]
             /\ responses' = [responses EXCEPT !.dc = IF answer.err THEN "fail" ELSE "ok",
                                               !.val = out.validator]
             /\ dcDb' = out.db
             /\ datacenters_df' = out.df
             /\ eidavalidator' = out.validator
             /\ pc' = IF out.raised THEN "returned" ELSE "channels"
             /\ exit_code' = IF out.raised THEN 1 ELSE exit_code
    /\ UNCHANGED <<sys_exit, unitVars>>
    /\ UNCHANGED <<cfg, world, staDb, prev, segDb, nextId, channels_df, candidates,
                   download_id, dbbufsize, downloadVars>>

\* what QuitDownload.log returns
log(iserror) == IF iserror THEN 1 ELSE 0

\* get_channels_df: the station services answer; read_async may raise
\* QuitDownload(MemoryError) after the first answer, and get_channels_df raises
\* QuitDownload with no channel: run returns what its log() returns
RunChannels ==
    /\ pc = "channels"
    /\ \E r \in [DcIds -> StationAnswers], mem \in BOOLEAN :
          LET out == get_channels_df(staDb, r, eidavalidator, cfg.update_metadata,
                                     cfg.min_sample_rate)
          IN /\ (cfg.min_sample_rate = 0 => \A d \in DcIds : r[d] # "low")
             /\ responses' = [responses EXCEPT !.cha = r]
             /\ IF mem \/ out.raised
                THEN /\ pc' = "returned"
                     /\ exit_code' = log(mem \/ out.iserror)
                     /\ UNCHANGED <<staDb, channels_df>>
                ELSE /\ pc' = "merge"
                     /\ staDb' = out.staDb
                     /\ channels_df' = out.df
                     /\ UNCHANGED exit_code
    /\ UNCHANGED <<sys_exit, routingVars, unitVars>>
    /\ UNCHANGED <<cfg, world, prev, segDb, nextId, eidavalidator, candidates, download_id,
                   dbbufsize, downloadVars>>

\* merge_events_stations, `del channels_df` and `exit_code = 0`; with no segment
\* QuitDownload(Exception) and run returns 1
RunMerge ==
    /\ pc = "merge"
    /\ LET df == merge_events_stations(Catalog, channels_df)
       IN /\ candidates' = df
          /\ pc' = IF df = <<>> THEN "returned" ELSE "prepare"
          /\ exit_code' = IF df = <<>> THEN 1 ELSE 0
    /\ channels_df' = <<>>
    /\ UNCHANGED <<sys_exit, routingVars, unitVars>>
    /\ UNCHANGED <<cfg, world, staDb, responses, prev, segDb, nextId, eidavalidator,
                   download_id, dbbufsize, downloadVars>>

\* query4inventorydownload: the stations with no inventory (all, with
\* update_metadata) and at least one segment with data
StationsForInventory(stations, segments, update) ==
    {t \in stations : /\ (~t.inventory_xml \/ update)
                      /\ \E g \in segments : g.data = "bytes"}

\* `if inventory:` to the end of run.  save_inventories is not called in a try
\* block: the QuitDownload(MemoryError) read_async raises after the first answer
\* leaves run as an exception.  The inventory is written by dbmanager.add when the
\* buffer size is 1, else by dbmanager.close()
RunInventory ==
    /\ pc = "inventory"
    /\ LET stations_df == StationsForInventory(staDb, segDb, cfg.update_metadata)
       IN IF stations_df = {}
          THEN /\ pc' = "returned"
               /\ UNCHANGED staDb
          ELSE \E ans \in {"exc", "empty", "data"}, mem \in BOOLEAN :
                 /\ pc' = IF mem THEN "escaped" ELSE "returned"
                 /\ staDb' = IF ans = "data" /\ (~mem \/ dbbufsize <= 1)
                             THEN {IF t \in stations_df THEN [t EXCEPT !.inventory_xml = TRUE]
                                   ELSE t : t \in staDb}
                             ELSE staDb
    /\ UNCHANGED <<sys_exit, routingVars, unitVars>>
    /\ UNCHANGED <<cfg, world, responses, prev, segDb, nextId, eidavalidator, channels_df,
                   candidates, download_id, dbbufsize, downloadVars, exit_code>>

----------------------------------------------------------------------------
(* The command line: cli.download around main.download *)

\* everything but the position of the driver and the exit status
runVars == <<cfg, world, staDb, responses, prev, segDb, nextId, eidavalidator,
             channels_df, candidates, download_id, dbbufsize, downloadVars, exit_code,
             routingVars, unitVars>>

\* main.download finds the configuration or an option invalid and raises BadArgument
\* before the Download row is added and run is called
BadArgument ==
    /\ pc \in {"idle", "returned", "escaped"}
    /\ download_id < MaxRuns
    /\ pc' = "invalid"
    /\ sys_exit' = NULL
    /\ UNCHANGED runVars

\* `ret` of cli.download: what main.download returned, 2 on BadArgument, 3 on any
\* other exception
ret == IF pc = "invalid" THEN 2 ELSE IF pc = "escaped" THEN 3 ELSE exit_code

\* cli.download after main.download: sys.exit(0 if ret <= 1 else ret)
cli_download ==
    /\ pc \in {"returned", "escaped", "invalid"}
    /\ sys_exit = NULL
    /\ sys_exit' = IF ret <= 1 THEN 0 ELSE ret
    /\ UNCHANGED <<pc, runVars>>

----------------------------------------------------------------------------
(* Inputs of the functions checked on their own *)

\* the subsets of S with at most n elements
RECURSIVE SubsetsUpTo(_, _)
SubsetsUpTo(S, n) ==
    IF n = 0 THEN {{}}
    ELSE LET smaller == SubsetsUpTo(S, n - 1)
         IN smaller \cup {T \cup {x} : T \in smaller, x \in S}

\* Segment.id of the stored row of a (channel, event) pair, when drawn as stored
StoredId(cha, evt) == (cha - 1) * Cardinality(EventIds) + evt

\* a Segment row as an earlier run (Download.id 0) with the offsets ts left it
StoredRow(cha, evt, dc, code, ts) ==
    [id |-> StoredId(cha, evt), channel_id |-> cha, event_id |-> evt,
     datacenter_id |-> dc,
     request_start |-> Tstart(EvTime(evt) + TravelTime(cha, evt), ts),
     request_end |-> Tend(EvTime(evt) + TravelTime(cha, evt), ts),
     download_code |-> code,
     data |-> IF code = 200 \/ code = OUTTIME_WARN THEN "bytes" ELSE "none",
     download_id |-> 0]

\* read_async is not called
NoFetch ==
    /\ iterable = {}
    /\ max_mem_consumption = 90
    /\ urlerrors = {}
    /\ next_unit = 1
    /\ running = {}
    /\ ready = <<>>
    /\ delivered = {}
    /\ ncalls = 0
    /\ cancelled = {}
    /\ discarded = {}
    /\ kill = FALSE
    /\ samples = <<>>
    /\ check_due = FALSE
    /\ callers = {}

\* the data centers and the functions checked on their own: nothing stored,
\* nothing called
NoUnit ==
    /\ dcDb = {}
    /\ datacenters_df = <<>>
    /\ routing = NoRouting
    /\ web_cha_df = <<>>
    /\ sta_df = {}
    /\ isin_calls = {}
    /\ nslc = <<<<>>, <<>>, <<>>, <<>>>>
    /\ postdata = <<>>
    /\ purged = {}
    /\ from_db = {}
    /\ events_df = <<>>
    /\ NoFetch

\* the download variables before download_save_segments is entered
NoDownload ==
    /\ plan = <<>>
    /\ segments_df = <<>>
    /\ update_tb = FALSE
    /\ group_idx = 0
    /\ itr = {}
    /\ emitted = 0
    /\ skipped_dataframes = <<>>
    /\ segmanager = NewManager
    /\ stats = <<>>
    /\ added = <<>>
    /\ exit_code = NULL
    /\ sys_exit = NULL
    /\ NoUnit

\* the channel frames the planner is checked with: one channel, and the same channel
\* as returned for two data centers
PlanChannelFrames == {<<ChannelRow(1, 1)>>, <<ChannelRow(1, 1), ChannelRow(1, 2)>>}

\* prepare_for_download on its own: any stored code and window for the pairs of
\* channel 1 with the events 1 and 3, any configuration
InitPlan ==
    /\ pc = "prepare"
    /\ cfg \in [update_metadata : {FALSE}, db_buf_size : {1}, min_sample_rate : {0},
                retry : SubsetsUpTo(RetryFlags, MaxRetryFlags),
                timespan : TimespanSamples, inventory : {FALSE}]
    /\ \E chdf \in PlanChannelFrames :
          /\ channels_df = chdf
          /\ candidates = merge_events_stations(<<1, 3>>, chdf)
    /\ world = AnyAnswer
    /\ staDb = {}
    /\ responses = NoResponses
    /\ prev = NoResponses
    /\ eidavalidator = NoValidator
    /\ \E stored \in [{1, 3} -> {<<>>} \cup (CodeSamples \X TimespanSamples)] :
          segDb = {StoredRow(1, e, 1, stored[e][1], stored[e][2]) :
                      e \in {e \in {1, 3} : stored[e] # <<>>}}
    /\ nextId = 1 + Cardinality(ChannelIds) * Cardinality(EventIds)
    /\ download_id = 1
    /\ dbbufsize = 1
    /\ NoDownload

SpecPlan == InitPlan /\ [][RunPrepare]_vars

\* the largest DbManager buffer of the download check
MaxBuf == 2

\* the channel frames the downloader is checked with: one channel, two channels of
\* one data center, two channels of two data centers, and one channel under two
\* data centers
DownloadChannelFrames ==
    {<<ChannelRow(1, 1)>>,
     <<ChannelRow(1, 1), ChannelRow(2, 1)>>,
     <<ChannelRow(1, 1), ChannelRow(2, 2)>>,
     <<ChannelRow(1, 1), ChannelRow(1, 2)>>}

\* download_save_segments on its own: the plan of prepare_for_download for one
\* channel and any events, or two rows of channels and the first event; the segments
\* of the first events, `old`, stored by an earlier run (with a server error, under
\* data center 1), every retry flag set
InitDownload ==
    /\ \E chdf \in DownloadChannelFrames, evs \in (SUBSET EventIds) \ {{}},
          ts \in {<<1, 1>>} :
         \E old \in {evs \cap 1..n : n \in 0..MaxEvents}, tsOld \in TimespanSamples :
            LET frame == merge_events_stations(Sorted(evs), chdf)
                db == {StoredRow(frame[i].channel_id, frame[i].event_id, 1, 500, tsOld) :
                          i \in {i \in DOMAIN frame : frame[i].event_id \in old}}
                out == prepare_for_download(db, frame, ts, RetryFlags)
            IN /\ (Len(chdf) = 1 \/ evs = {1})
               /\ (old = {} => tsOld = ts)
               /\ channels_df = chdf
               /\ candidates = frame
               /\ plan = out.segments_df
               /\ segDb = db
               /\ cfg = [retry |-> RetryFlags, timespan |-> ts, inventory |-> FALSE,
                         update_metadata |-> FALSE, db_buf_size |-> 1,
                         min_sample_rate |-> 0]
               /\ segments_df = out.segments_df
               /\ update_tb = out.update_tb
               /\ itr = Groups(out.segments_df, 1)
    /\ pc = "download"
    /\ world = AnyAnswer
    /\ staDb = {}
    /\ responses = NoResponses
    /\ prev = NoResponses
    /\ eidavalidator = NoValidator
    /\ group_idx = 1
    /\ nextId = 1 + Cardinality(ChannelIds) * Cardinality(EventIds)
    /\ download_id = 1
    /\ dbbufsize \in {1, MaxBuf}
    /\ emitted = 0
    /\ skipped_dataframes = <<>>
    /\ segmanager = NewManager
    /\ stats = <<>>
    /\ added = <<>>
    /\ exit_code = NULL
    /\ sys_exit = NULL
    /\ NoUnit

NextDownload == DSS_Result \/ DSS_MemoryAbort \/ DSS_NextPass \/ DSS_Close

SpecDownload == InitDownload /\ [][NextDownload]_vars

----------------------------------------------------------------------------
(* The driver, run after run on one data base *)

\* the retry flags the runs are configured with (run has no retry_timespan_warn)
RunRetryFlags == {{}, RetryFlags \ {"timespan_warn"}}

\* a run is configured with any of the retry flags, inventory and update_metadata
\* and no minimum sample rate, or with a minimum sample rate and none of them
Init ==
    /\ pc = "idle"
    /\ cfg \in [retry : RunRetryFlags, timespan : {<<1, 1>>}, inventory : BOOLEAN,
                min_sample_rate : {0, 1},
                update_metadata : BOOLEAN, db_buf_size : {MaxBuf}]
    /\ cfg.min_sample_rate > 0 => (cfg.retry = {} /\ ~cfg.inventory /\ ~cfg.update_metadata)
    /\ world = FewAnswers
    /\ staDb = {}
    /\ responses = NoResponses
    /\ prev = NoResponses
    /\ segDb = {}
    /\ nextId = 1
    /\ eidavalidator = NoValidator
    /\ channels_df = <<>>
    /\ candidates = <<>>
    /\ update_tb = FALSE
    /\ download_id = 0
    /\ dbbufsize = DbBufSize(MaxBuf)
    /\ NoDownload

Next ==
    \/ RunStart
    \/ RunEvents
    \/ RunDatacenters
    \/ RunChannels
    \/ RunMerge
    \/ RunPrepare
    \/ DSS_Result
    \/ DSS_MemoryAbort
    \/ DSS_NextPass
    \/ DSS_Close
    \/ RunInventory
    \/ BadArgument
    \/ cli_download

Spec == Init /\ [][Next]_vars

\* get_datacenters_df on its own, call after call on one data base, with any
\* service and any answer of the routing service
GetDatacenters ==
    /\ pc \in {"idle", "routed", "raised"}
    /\ \E service \in Services, answer \in RoutingAnswers :
          LET out == get_datacenters_df(dcDb, service, answer)
          IN /\ (service # "eida" => answer = NoAnswer)
             /\ routing' = [service |-> service, answer |-> answer]
             /\ dcDb' = out.db
             /\ datacenters_df' = out.df
             /\ eidavalidator' = out.validator
             /\ pc' = IF out.raised THEN "raised" ELSE "routed"
    /\ UNCHANGED <<cfg, world, staDb, responses, prev, segDb, nextId, channels_df,
                   candidates, download_id, dbbufsize, downloadVars, exit_code,
                   sys_exit, unitVars>>

InitRouting ==
    Init /\ cfg.retry = {} /\ ~cfg.inventory /\ ~cfg.update_metadata /\ cfg.min_sample_rate = 0

SpecRouting == InitRouting /\ [][GetDatacenters]_vars

\* the largest number of rows of the web frame of the check of
\* save_stations_and_channels
MaxWebRows == 3

\* the rows the station services may return: the two channels of station 1 from
\* either data center, and channel 1 of station 2 from the first
WebRows ==
    {[station |-> 1, datacenter_id |-> d, channel |-> c] : d \in DcIds, c \in ChannelIds}
    \cup {[station |-> 2, datacenter_id |-> MinOf(DcIds), channel |-> 1]}

\* the sequences of at most n distinct elements of S
RECURSIVE DistinctSeqs(_, _)
DistinctSeqs(S, n) ==
    IF n = 0 THEN {<<>>}
    ELSE LET shorter == DistinctSeqs(S, n - 1)
         IN shorter \cup {Append(q, x) : q \in shorter, x \in S}

\* the frames handed to save_stations_and_channels: never empty, no row twice
WebFrames ==
    {q \in DistinctSeqs(WebRows, MaxWebRows) :
        q # <<>> /\ \A i, j \in DOMAIN q : i # j => q[i] # q[j]}

\* no validator, or the validator of any routing response
UnitValidators == {NoValidator} \cup {<<V>> : V \in SUBSET (DcIds \X ChannelIds)}

\* the columns the web frame may share with Station, of those the model has
SharedColnames == {{"datacenter_id"}, {"datacenter_id", "inventory_xml"}}

\* save_stations_and_channels on its own, call after call on one data base, with
\* any frame and any validator
SaveStationsAndChannels ==
    /\ pc = "idle"
    /\ \E df \in WebFrames, validator \in UnitValidators, cols \in SharedColnames :
          LET out == save_stations_and_channels(staDb, df, validator,
                                                cfg.update_metadata, cols)
          IN /\ web_cha_df' = df
             /\ eidavalidator' = validator
             /\ sta_df' = out.sta_df
             /\ isin_calls' = out.isin_calls
             /\ channels_df' = out.df
             /\ staDb' = out.staDb
             /\ pc' = IF out.raised THEN "raised" ELSE "saved"
    /\ UNCHANGED <<cfg, world, responses, prev, segDb, nextId, candidates, download_id,
                   dbbufsize, downloadVars, exit_code, sys_exit, routingVars, nslc,
                   postdata, purged, from_db, extVars>>

\* the call is over: its frames are gone
ChannelsReturn ==
    /\ pc \in {"saved", "raised"}
    /\ pc' = "idle"
    /\ web_cha_df' = <<>>
    /\ eidavalidator' = NoValidator
    /\ sta_df' = {}
    /\ isin_calls' = {}
    /\ channels_df' = <<>>
    /\ UNCHANGED <<cfg, world, staDb, responses, prev, segDb, nextId, candidates,
                   download_id, dbbufsize, downloadVars, exit_code, sys_exit,
                   routingVars, nslc, postdata, purged, from_db, extVars>>

\* save_inventories between two calls: a station gets its inventory
InventorySaved ==
    /\ pc = "idle"
    /\ \E t \in staDb :
          /\ ~t.inventory_xml
          /\ staDb' = (staDb \ {t}) \cup {[t EXCEPT !.inventory_xml = TRUE]}
    /\ UNCHANGED <<pc, cfg, world, responses, prev, segDb, nextId, eidavalidator,
                   channels_df, candidates, download_id, dbbufsize, downloadVars,
                   exit_code, sys_exit, routingVars, unitVars>>

InitChannels == Init /\ cfg.retry = {} /\ ~cfg.inventory /\ cfg.min_sample_rate = 0

NextChannels == SaveStationsAndChannels \/ ChannelsReturn \/ InventorySaved

SpecChannels == InitChannels /\ [][NextChannels]_vars

----------------------------------------------------------------------------
(* merge_events_stations on its own *)

\* the end times of the stations: none, or one day after the time of the first
\* event, a second less or more, two seconds more
EndTimes == {NULL} \cup {EvTime(1) + HalfSecPerDay + k : k \in {-2, 0, 2, 4}}

\* the start times of the stations: before every event, after the first one
StartTimes == {0, EvTime(1) + 1}

\* the frames of channels: channel 1 of station 1, or with it channel 2 of station 2
MergeChannelFrames ==
    {<<[ChannelRow(1, 1) EXCEPT !.start_time = st, !.end_time = et]>> :
        st \in StartTimes, et \in EndTimes}
    \cup {<<[ChannelRow(1, 1) EXCEPT !.end_time = e1], [ChannelRow(2, 1) EXCEPT !.end_time = e2]>> :
             e1, e2 \in EndTimes \ {NULL}}

\* merge_events_stations is called with events of the catalog and a frame of
\* channels; with no pair it raises QuitDownload
MergeEventsStations ==
    /\ pc = "idle"
    /\ \E evs \in (SUBSET EventIds) \ {{}}, chdf \in MergeChannelFrames :
          LET rows == MergeRows(Sorted(evs), 1, chdf)
          IN /\ events_df' = Sorted(evs)
             /\ channels_df' = chdf
             /\ candidates' = IF rows = <<>> THEN <<>>
                              ELSE merge_events_stations(Sorted(evs), chdf)
             /\ pc' = IF rows = <<>> THEN "raised" ELSE "merged"
    /\ UNCHANGED <<cfg, world, staDb, responses, prev, segDb, nextId, eidavalidator,
                   download_id, dbbufsize, downloadVars, exit_code, sys_exit,
                   routingVars, web_cha_df, sta_df, isin_calls, nslc, postdata, purged,
                   from_db, fetchVars>>

\* the call is over
MergeReturn ==
    /\ pc \in {"merged", "raised"}
    /\ pc' = "idle"
    /\ events_df' = <<>>
    /\ channels_df' = <<>>
    /\ candidates' = <<>>
    /\ UNCHANGED <<cfg, world, staDb, responses, prev, segDb, nextId, eidavalidator,
                   download_id, dbbufsize, downloadVars, exit_code, sys_exit,
                   routingVars, web_cha_df, sta_df, isin_calls, nslc, postdata, purged,
                   from_db, fetchVars>>

InitMerge ==
    Init /\ cfg.retry = {} /\ ~cfg.inventory /\ ~cfg.update_metadata /\ cfg.min_sample_rate = 0

NextMerge == MergeEventsStations \/ MergeReturn

SpecMerge == InitMerge /\ [][NextMerge]_vars

----------------------------------------------------------------------------
(* read_async: the fetcher of utils.url, a pool of workers whose results the driver
   hands to the consumer, and around it the generator of download.main that watches
   the memory of the process *)

\* the largest number of input items, and the workers of the pool
MaxItems == 11
MaxWorkers == 2

\* the thresholds read_async is called with, and the memory the process may use
\* when it is sampled, in percent
Thresholds == {0, 1, 90, 100}
MemPercents == {50, 95}

\* the reads that meet a URLError
UrlErrorSets == {{}, {1}, {2, 3}}

\* the variables of the caller of read_async
callerVars == <<cfg, world, staDb, responses, prev, segDb, nextId, eidavalidator,
                channels_df, candidates, download_id, dbbufsize, downloadVars,
                exit_code, sys_exit, routingVars, web_cha_df, sta_df, isin_calls, nslc,
                postdata, purged, from_db, events_df>>

\* `if max_mem_consumption > 0 and max_mem_consumption < 100`
Watching(threshold) == threshold > 0 /\ threshold < 100

\* the memory is sampled after the results that zip pairs with a value of the cycle
\* from the last position of range(check_mem_step)
check_mem_val_Last(i) == (i + 1) % check_mem_step

\* the value zip pairs with the result at position i (from 0) of the fetcher:
\* cycle(range(check_mem_step))
check_mem_val(i) == i % check_mem_step

\* a sample above the threshold ends the generator with no exception
AfterOverflow_Return == "fetched"

\* where a sample above the threshold leaves the generator: raise
\* QuitDownload(MemoryError(...))
AfterOverflow == "quit"

\* what a worker returns for a work unit: the tag of its item and the data read, or
\* the URLError it met
WorkerResult(t) == [obj |-> t, exc |-> t \in urlerrors]

\* the driver hands on every result, asked to stop or not
Delivers_Always(k) == TRUE

\* the driver hands a result to the consumer unless the consumer asked to stop
Delivers(k) == ~k

\* read_async is called with n items, and the workers are free
ReadAsync ==
    /\ pc = "idle"
    /\ \E n \in {1, 2, MaxItems}, threshold \in Thresholds, errs \in UrlErrorSets :
          /\ iterable' = 1..n
          /\ max_mem_consumption' = threshold
          /\ urlerrors' = errs \cap 1..n
    /\ pc' = "fetching"
    /\ UNCHANGED <<next_unit, running, ready, delivered, ncalls, cancelled, discarded,
                   kill, samples, check_due, callers>>
    /\ UNCHANGED callerVars

\* a free worker takes the next work unit
WorkerStart ==
    /\ pc \in {"fetching", "closing"}
    /\ next_unit \in iterable
    /\ Cardinality(running) + Len(ready) < MaxWorkers
    /\ running' = running \cup {next_unit}
    /\ next_unit' = next_unit + 1
    /\ UNCHANGED <<pc, iterable, max_mem_consumption, urlerrors, ready, delivered,
                   ncalls, cancelled, discarded, kill, samples, check_due, callers>>
    /\ UNCHANGED callerVars

\* a worker has read its url, or met a URLError: it returns the result to the driver
WorkerDone ==
    /\ pc \in {"fetching", "closing"}
    /\ \E t \in running :
          /\ running' = running \ {t}
          /\ ready' = Append(ready, WorkerResult(t))
    /\ UNCHANGED <<pc, iterable, max_mem_consumption, urlerrors, next_unit, delivered,
                   ncalls, cancelled, discarded, kill, samples, check_due, callers>>
    /\ UNCHANGED callerVars

\* the driver takes the first result returned.  It hands it to the consumer, which
\* may ask to stop: the work units no worker has taken are cancelled and reported.
\* In the generator of download.main the consumer then asks for the next result, and
\* the memory is sampled first when check_mem_val is 0
Emit ==
    /\ pc \in {"fetching", "closing"}
    /\ ~check_due
    /\ ready # <<>>
    /\ ready' = Tail(ready)
    /\ IF Delivers(kill)
       THEN /\ delivered' = delivered \cup {Head(ready)}
            /\ ncalls' = ncalls + 1
            /\ UNCHANGED discarded
            /\ \E stop \in BOOLEAN :
                  IF stop
                  THEN /\ kill' = TRUE
                       /\ pc' = "closing"
                       /\ cancelled' = cancelled \cup {t \in iterable : t >= next_unit}
                       /\ next_unit' = Cardinality(iterable) + 1
                       /\ callers' = callers \cup
                              {[callback |-> cb, thread |-> "main"] :
                                  cb \in {"ondone"} \cup
                                         IF next_unit \in iterable THEN {"oncanc"} ELSE {}}
                       /\ UNCHANGED check_due
                  ELSE /\ check_due' = (/\ Watching(max_mem_consumption)
                                        /\ check_mem_val(ncalls) = 0)
                       /\ callers' = callers \cup
                                         {[callback |-> "ondone", thread |-> "main"]}
                       /\ UNCHANGED <<pc, kill, cancelled, next_unit>>
       ELSE /\ discarded' = discarded \cup {Head(ready).obj}
            /\ UNCHANGED <<pc, delivered, ncalls, kill, cancelled, next_unit, check_due,
                           callers>>
    /\ UNCHANGED <<iterable, max_mem_consumption, urlerrors, running, samples>>
    /\ UNCHANGED callerVars

\* process.memory_percent() is sampled: above the threshold the generator raises
\* QuitDownload(MemoryError) and yields nothing more
MemCheck ==
    /\ pc = "fetching"
    /\ check_due
    /\ check_due' = FALSE
    /\ \E mem_percent \in MemPercents :
          /\ samples' = Append(samples, [after |-> ncalls, mem_percent |-> mem_percent])
          /\ pc' = IF mem_percent > max_mem_consumption THEN AfterOverflow ELSE pc
    /\ UNCHANGED <<iterable, max_mem_consumption, urlerrors, next_unit, running, ready,
                   delivered, ncalls, cancelled, discarded, kill, callers>>
    /\ UNCHANGED callerVars

\* every work unit is over: the fetcher is exhausted
Exhausted ==
    /\ pc \in {"fetching", "closing"}
    /\ ~check_due
    /\ next_unit \notin iterable
    /\ running = {}
    /\ ready = <<>>
    /\ pc' = IF pc = "closing" THEN "closed" ELSE "fetched"
    /\ UNCHANGED fetchVars
    /\ UNCHANGED callerVars

InitFetch ==
    Init /\ cfg.retry = {} /\ ~cfg.inventory /\ ~cfg.update_metadata /\ cfg.min_sample_rate = 0

NextFetch == ReadAsync \/ WorkerStart \/ WorkerDone \/ Emit \/ MemCheck \/ Exhausted

SpecFetch == InitFetch /\ [][NextFetch]_vars

----------------------------------------------------------------------------
(* The channel filter of get_channels_df: get_post_data, get_pd_filterfunc and
   get_sqla_binexp.  A string is a sequence of characters, a channel a tuple
   (network, station, location, channel) of strings *)

\* a string matches a sequence of tokens, `many` standing for any string and `one`
\* for any character
RECURSIVE TokensMatch(_, _, _, _)
TokensMatch(t, v, many, one) ==
    IF t = <<>> THEN v = <<>>
    ELSE IF Head(t) = many
    THEN \E k \in 0..Len(v) : TokensMatch(Tail(t), SubSeq(v, k + 1, Len(v)), many, one)
    ELSE /\ v # <<>>
         /\ (Head(t) = one \/ Head(t) = Head(v))
         /\ TokensMatch(Tail(t), Tail(v), many, one)

\* strconvert.wild2re: * becomes .* and ? becomes .
wild2re(x) ==
    [i \in DOMAIN x |-> IF x[i] = "*" THEN ".*" ELSE IF x[i] = "?" THEN "." ELSE x[i]]

\* strconvert.wild2sql: * becomes % and ? becomes _
wild2sql(x) ==
    [i \in DOMAIN x |-> IF x[i] = "*" THEN "%" ELSE IF x[i] = "?" THEN "_" ELSE x[i]]

\* Series.str.match of a compiled "^...$"
ReMatch(reg, v) == TokensMatch(reg, v, ".*", ".")

\* column LIKE pattern
Like(v, pattern) == TokensMatch(pattern, v, "%", "_")

\* string[0:1] == '!' and string[1:]
IsNegation(string) == string # <<>> /\ string[1] = "!"
Strip(string) == SubSeq(string, 2, Len(string))

\* sep.join(lst)
RECURSIVE Join(_, _)
Join(lst, sep) ==
    IF lst = <<>> THEN <<>>
    ELSE IF Len(lst) = 1 THEN lst[1]
    ELSE lst[1] \o <<sep>> \o Join(Tail(lst), sep)

\* str.split(sep)
RECURSIVE Split(_, _)
Split(str, sep) ==
    IF \A i \in DOMAIN str : str[i] # sep THEN <<str>>
    ELSE LET k == CHOOSE i \in DOMAIN str :
                     str[i] = sep /\ \A j \in 1..(i - 1) : str[j] # sep
         IN <<SubSeq(str, 1, k - 1)>> \o Split(SubSeq(str, k + 1, Len(str)), sep)

\* to_fdsn_arg: the strings that are no negation, joined by commas
to_fdsn_arg(lst) == Join(SelectSeq(lst, LAMBDA x : ~IsNegation(x)), ",")

\* the argument of get_post_data for the list at position i of enumerate([net, sta,
\* loc, cha])
parsearg(i, lst) ==
    IF lst = <<>> THEN <<"*">>
    ELSE IF i = 3 /\ to_fdsn_arg(lst) = <<>> THEN <<"-", "-">>
    ELSE to_fdsn_arg(lst)

\* get_post_data with no start and end time: "{} {} {} {} {} {}".format(*args)
get_post_data(net, sta, loc, cha) ==
    Join(<<parsearg(0, net), parsearg(1, sta), parsearg(2, loc), parsearg(3, cha),
           <<"*">>, <<"*">>>>, " ")

\* the negations of a list without their mark
Negations(lst) == {Strip(lst[k]) : k \in {j \in DOMAIN lst : IsNegation(lst[j])}}

\* the function get_pd_filterfunc returns, applied to a row: with no negation every
\* row is kept, else flt is ~colflt of the first column with negations, or-ed with
\* ~colflt of the others
get_pd_filterfunc(lists, row) ==
    LET pd_re == {i \in DOMAIN lists : Negations(lists[i]) # {}}
        colflt(i) == \E x \in Negations(lists[i]) : ReMatch(wild2re(x), row[i])
    IN pd_re = {} \/ \E i \in pd_re : ~colflt(i)

\* the expression get_sqla_binexp returns, evaluated on a row: for every column
\* with strings the or_ of their conditions, and_-ed over the columns
get_sqla_binexp(lists, row) ==
    LET condition(i, str) ==
            LET negate == IsNegation(str)
                string == IF negate THEN Strip(str) ELSE str
                c == IF \E k \in DOMAIN string : string[k] \in {"?", "*"}
                     THEN Like(row[i], wild2sql(string))
                     ELSE row[i] = string
            IN IF negate THEN ~c ELSE c
    IN \A i \in DOMAIN lists :
          lists[i] = <<>> \/ \E k \in DOMAIN lists[i] : condition(i, lists[i][k])

\* the channels the station services and the data base know
ChannelRows ==
    {<<n, s, l, c>> : n \in {<<"A">>, <<"B">>}, s \in {<<"A">>, <<"B">>},
                      l \in {<<>>, <<"A">>}, c \in {<<"A">>, <<"B">>}}

\* a station service: a body that has not six fields is an error; else the channels
\* that match, in every column, one of the strings of the field (-- is the empty
\* location)
StationService(body) ==
    LET fields == SelectSeq(Split(body, " "), LAMBDA f : f # <<>>)
        matches(row, i) ==
            \E x \in Range(Split(fields[i], ",")) :
                \/ i = 3 /\ x = <<"-", "-">> /\ row[i] = <<>>
                \/ TokensMatch(x, row[i], "*", "?")
    IN IF Len(fields) # 6 THEN {}
       ELSE {row \in ChannelRows : \A i \in 1..4 : matches(row, i)}

\* the largest number of strings of the channel list of the filter
MaxPatterns == 2

\* the lists of the filter: networks, stations, locations and channels
NetLists == {<<>>, <<<<"A">>>>, <<<<"!", "A">>>>, <<<<"?">>, <<"!", "A">>>>}
StaLists == {<<>>, <<<<"!", "B">>>>}
LocLists == {<<>>, <<<<>>>>, <<<<"!", "A">>>>}
ChaPatterns == {<<"A">>, <<"?">>, <<"!", "A">>, <<"!", "B">>}
ChaLists ==
    {q \in DistinctSeqs(ChaPatterns, MaxPatterns) :
        \A i, j \in DOMAIN q : i # j => q[i] # q[j]}

\* get_channels_df builds the POST data of the filter
GetPostData ==
    /\ pc = "idle"
    /\ \E net \in NetLists, sta \in StaLists, loc \in LocLists, cha \in ChaLists :
          /\ nslc' = <<net, sta, loc, cha>>
          /\ postdata' = get_post_data(net, sta, loc, cha)
    /\ pc' = "posted"
    /\ UNCHANGED <<cfg, world, staDb, responses, prev, segDb, nextId, eidavalidator,
                   channels_df, candidates, download_id, dbbufsize, downloadVars,
                   exit_code, sys_exit, routingVars, web_cha_df, sta_df, isin_calls,
                   purged, from_db, extVars>>

\* a station service answers and the post-filter is applied to its rows
PurgeResponse ==
    /\ pc = "posted"
    /\ purged' = {row \in StationService(postdata) : get_pd_filterfunc(nslc, row)}
    /\ pc' = "purged"
    /\ UNCHANGED <<cfg, world, staDb, responses, prev, segDb, nextId, eidavalidator,
                   channels_df, candidates, download_id, dbbufsize, downloadVars,
                   exit_code, sys_exit, routingVars, web_cha_df, sta_df, isin_calls,
                   nslc, postdata, from_db, extVars>>

\* get_channels_df_from_db for a data center that failed, with no time bound and no
\* minimum sample rate
ChannelsFromDb ==
    /\ pc = "purged"
    /\ from_db' = {row \in ChannelRows : get_sqla_binexp(nslc, row)}
    /\ pc' = "queried"
    /\ UNCHANGED <<cfg, world, staDb, responses, prev, segDb, nextId, eidavalidator,
                   channels_df, candidates, download_id, dbbufsize, downloadVars,
                   exit_code, sys_exit, routingVars, web_cha_df, sta_df, isin_calls,
                   nslc, postdata, purged, extVars>>

InitFilter ==
    Init /\ cfg.retry = {} /\ ~cfg.inventory /\ ~cfg.update_metadata /\ cfg.min_sample_rate = 0

NextFilter == GetPostData \/ PurgeResponse \/ ChannelsFromDb

SpecFilter == InitFilter /\ [][NextFilter]_vars

----------------------------------------------------------------------------
(* The planner: which candidates are kept *)

\* the retry class of a stored download code, read off the table of codes
ClassOf(code) ==
    IF code = NULL THEN "seg_not_found"
    ELSE IF code = URLERR_CODE THEN "url_err"
    ELSE IF code = MSEEDERR_CODE THEN "mseed_err"
    ELSE IF code = OUTTIME_ERR THEN "timespan_err"
    ELSE IF code = OUTTIME_WARN THEN "timespan_warn"
    ELSE IF code \in 400..499 THEN "client_err"
    ELSE IF code \in 500..599 THEN "server_err"
    ELSE "none"

\* the candidate of position i is in the frame prepare_for_download returned
Kept(i) == \E j \in DOMAIN plan : plan[j].row = candidates[i].row

\* the stored window of a segment is not the window computed now for the candidate
WindowDiffers(s, c) ==
    \/ s.request_start # Tstart(c.arrival_time, cfg.timespan)
    \/ s.request_end # Tend(c.arrival_time, cfg.timespan)

\* C1: once prepare_for_download has returned, a candidate with no stored segment
\* is kept, and a candidate with a stored segment is kept if and only if the retry
\* class of the stored download code is enabled or the stored window differs from
\* the window computed now
C1_KeptIff ==
    pc # "prepare" =>
        \A i \in DOMAIN candidates :
            LET ex == Existing(segDb, candidates[i])
            IN IF ex = {} THEN Kept(i)
               ELSE \A s \in ex :
                        Kept(i) <=> (ClassOf(s.download_code) \in cfg.retry
                                     \/ WindowDiffers(s, candidates[i]))

\* a stored segment whose class is not enabled is kept for its window alone, and
\* another stored segment is dropped
C1_Witness ==
    /\ pc # "prepare"
    /\ \E i, k \in DOMAIN candidates :
          /\ \E s \in Existing(segDb, candidates[i]) :
                /\ ClassOf(s.download_code) \notin cfg.retry
                /\ WindowDiffers(s, candidates[i])
                /\ Kept(i)
          /\ Existing(segDb, candidates[k]) # {}
          /\ ~Kept(k)

----------------------------------------------------------------------------
(* download_save_segments: what is handed to the DbManager *)

\* the positions of `added` of the request that position k belongs to
SameRequest(k) ==
    {j \in DOMAIN added : added[j].pass = added[k].pass /\ added[j].key = added[k].key}

\* the positions of `added` that hold the planned row of index label r
AddedAt(r) == {k \in DOMAIN added : added[k].row = r}

\* C4: every planned row is handed to the DbManager at most once, with the download
\* id of the run, in the first or the second pass; there is no third pass, and when
\* download_save_segments has returned every planned row was handed over exactly once
C4_AppendedOnce ==
    /\ group_idx <= 2
    /\ \A k \in DOMAIN added :
          /\ added[k].download_id = download_id
          /\ added[k].pass \in {1, 2}
          /\ \E i \in DOMAIN plan : plan[i].row = added[k].row
    /\ \A i \in DOMAIN plan : Cardinality(AddedAt(plan[i].row)) <= 1
    /\ group_idx = 0 => \A i \in DOMAIN plan : Cardinality(AddedAt(plan[i].row)) = 1

\* download_save_segments has returned after two passes, with rows handed over in
\* each of them
C4_Witness ==
    /\ group_idx = 0
    /\ Len(plan) = 3
    /\ \E k, j \in DOMAIN added : added[k].pass = 1 /\ added[j].pass = 2
    /\ \A i \in DOMAIN plan : Cardinality(AddedAt(plan[i].row)) = 1

\* the code the record of a row stands for
RecordCode(a) ==
    IF a.record = "err" THEN MSEEDERR_CODE
    ELSE IF a.record = "warn_data" THEN OUTTIME_WARN
    ELSE IF a.record = "out_nodata" THEN OUTTIME_ERR
    ELSE a.http

\* C5: in a response with a record for the row, the download code of the row is
\* the code of its own record: MSEED_ERR for a decoder error, TIMESPAN_WARN out of
\* the window with data, TIMESPAN_ERR out of the window without data, else the
\* HTTP status, whatever the records of the other rows of the group are
C5_OwnRecordCode ==
    \A k \in DOMAIN added :
        (added[k].resp = "mseed" /\ added[k].record # "missing")
            => added[k].download_code = RecordCode(added[k])

\* C6: the rows of a deferred group are not handed over in the first pass, the
\* second pass requests all of them, and every request of the second pass is for
\* one row
C6_FallbackOnePerSegment ==
    /\ \A i \in DOMAIN skipped_dataframes : AddedAt(skipped_dataframes[i].row) = {}
    /\ group_idx = 2 =>
          \A key \in Groups(segments_df, 2) : Len(GroupDf(segments_df, 2, key)) = 1

\* the rows of the current pass whose request has been answered
Answered(i) == GroupKey(group_idx, segments_df[i]) \notin itr

\* C7: only groups of several rows of the first pass are ever deferred; a row that
\* is alone in its group, and any row of the second pass, is handed to the
\* DbManager as soon as its request is answered, and a row answered with 413 that
\* is handed over has the code 413
C7_SingleNeverDeferred ==
    /\ \A i \in DOMAIN skipped_dataframes :
          /\ group_idx = 1
          /\ Len(GroupDf(segments_df, 1, GroupKey(1, skipped_dataframes[i]))) > 1
    /\ \A i \in DOMAIN segments_df :
          LET size == Len(GroupDf(segments_df, group_idx,
                                  GroupKey(group_idx, segments_df[i])))
          IN (Answered(i) /\ (size = 1 \/ group_idx = 2))
                => \E k \in AddedAt(segments_df[i].row) : added[k].pass = group_idx
    /\ \A k \in DOMAIN added : added[k].http = 413 => added[k].download_code = 413

\* a row alone in its group was answered 413 in the first pass, and a row of the
\* second pass was answered 413: both are handed over with the code 413
C7_Witness ==
    \E k, j \in DOMAIN added :
        /\ added[k].pass = 1 /\ added[k].glen = 1 /\ added[k].http = 413
        /\ added[k].download_code = 413
        /\ added[j].pass = 2 /\ added[j].http = 413 /\ added[j].download_code = 413

\* C8: after a transport error, an HTTP status of 400 or more, or an empty body,
\* all the rows of the group are handed over with one code: URL_ERR for the
\* transport error, else the status; the data are null on the errors and empty
\* bytes on the empty body
C8_WholeGroupOneCode ==
    \A k \in DOMAIN added :
        added[k].resp \in {"exc", "http", "empty"} =>
            /\ Cardinality(SameRequest(k)) = added[k].glen
            /\ \A j \in SameRequest(k) : added[j].download_code = added[k].download_code
            /\ added[k].download_code =
                  IF added[k].resp = "exc" THEN URLERR_CODE ELSE added[k].http
            /\ added[k].data = IF added[k].resp = "empty" THEN "empty" ELSE "none"

\* a group of two rows failed with an HTTP status, another with a transport error
\* or an empty body
C8_Witness ==
    \E k, j \in DOMAIN added :
        /\ added[k].resp = "http" /\ added[k].glen = 2
        /\ added[j].resp \in {"exc", "empty"}
        /\ added[j].download_code \in {URLERR_CODE, HttpOk}

\* the sum of the counts of the statistics
RECURSIVE SumStats(_)
SumStats(st) ==
    IF DOMAIN st = {} THEN 0
    ELSE LET x == CHOOSE y \in DOMAIN st : TRUE
         IN st[x] + SumStats([y \in DOMAIN st \ {x} |-> st[y]])

\* C9: when download_save_segments has returned, the counts of the statistics add
\* up to the number of rows inserted plus the number of rows updated
C9_StatsMatchWrites ==
    (group_idx = 0 /\ pc # "prepare")
        => SumStats(stats) = segmanager.inserted + segmanager.updated

----------------------------------------------------------------------------
(* run after run *)

\* the remote services have answered this run as they answered the run before
SameResponses ==
    /\ responses.ev = prev.ev
    /\ responses.dc = prev.dc
    /\ responses.val = prev.val
    /\ responses.cha = prev.cha

SamePair(r, t) == r.channel_id = t.channel_id /\ r.event_id = t.event_id

\* C3: the Segment table has at most one row for a pair, a run never plans two
\* rows for a pair, and a planned row has the id of the stored segment of its pair
\* if there is one, no id otherwise
C3_OneRowPerPair ==
    /\ \A r, t \in segDb : SamePair(r, t) => r = t
    /\ \A i, j \in DOMAIN plan : SamePair(plan[i], plan[j]) => i = j
    /\ (pc = "download" /\ group_idx = 1 /\ emitted = 0) =>
          \A i \in DOMAIN plan :
              IF Existing(segDb, plan[i]) = {} THEN plan[i].id = NULL
              ELSE \E r \in Existing(segDb, plan[i]) : plan[i].id = r.id

\* C10: no QuitDownload leaves run as an exception, and run returns 0 only when
\* every stage before the planner gave its frame and download_save_segments, if it
\* was called, returned
C10_NoQuitDownloadEscapes ==
    /\ pc # "escaped"
    /\ (pc = "returned" /\ exit_code = 0) => (candidates # <<>> /\ group_idx = 0)

----------------------------------------------------------------------------
(* The exit status of the command *)

\* C11: the command exits with 0 when the download routine returned 0 (success or
\* nothing to download), with 1 when it returned 1 (terminal error), with 2 on
\* invalid input and with 3 on an unexpected exception
C11_ExitStatus ==
    sys_exit # NULL => sys_exit = ret

----------------------------------------------------------------------------
(* Nothing to download *)

\* the planner of the current run was called and kept no candidate
KeptNothing ==
    /\ pc \in {"inventory", "returned", "escaped"}
    /\ candidates # <<>>
    /\ plan = <<>>

\* C12: when the planner keeps no segment, run sends no waveform request, hands no
\* Segment row to the data base and returns 0: it neither returns an error nor ends
\* with an exception
C12_NothingToDownloadReturns0 ==
    KeptNothing =>
        /\ emitted = 0
        /\ added = <<>>
        /\ segmanager = NewManager
        /\ pc # "escaped"
        /\ (pc = "returned" => exit_code = 0)

----------------------------------------------------------------------------
(* The fallback of the routing stage *)

\* the last call was in eida mode and the routing service failed or named no data
\* center
RoutingFailed ==
    /\ pc \in {"routed", "raised"}
    /\ routing.service = "eida"
    /\ (routing.answer.err \/ routing.answer.urls = {})

\* the ids of the rows of a frame
FrameIds(df) == {df[i].id : i \in DOMAIN df}

\* C13 as stated: when the routing service fails, the stage returns the stored
\* DataCenter rows with no validator whenever the table holds a row, and raises
\* only when the table is empty
C13_FallbackOnAnyRow ==
    RoutingFailed =>
        IF dcDb # {}
        THEN /\ pc = "routed"
             /\ eidavalidator = NoValidator
             /\ FrameIds(datacenters_df) = {r.id : r \in dcDb}
        ELSE pc = "raised"

\* C13 amended: when the routing service fails, the stage returns the stored
\* DataCenter rows of organization eida, and only those, with no validator whenever
\* the table holds such a row, and raises only when it holds none
C13_FallbackOnEidaRows ==
    RoutingFailed =>
        LET stored == {r \in dcDb : r.organization_name = "eida"}
        IN IF stored # {}
           THEN /\ pc = "routed"
                /\ eidavalidator = NoValidator
                /\ FrameIds(datacenters_df) = {r.id : r \in stored}
           ELSE pc = "raised"

\* the fallback returned the eida rows of a table that also holds another row
C13_Witness ==
    /\ RoutingFailed
    /\ pc = "routed"
    /\ datacenters_df # <<>>
    /\ \E r \in dcDb : r.organization_name # "eida"

----------------------------------------------------------------------------
(* The duplicated stations of save_stations_and_channels *)

\* the data centers that returned station s in the web frame
DcsOf(s) == {web_cha_df[i].datacenter_id :
                i \in {j \in DOMAIN web_cha_df : web_cha_df[j].station = s}}

\* the data centers under which station s was handed to the sync of the stations
KeptDcs(s) == {r.datacenter_id : r \in {t \in sta_df : t.station = s}}

\* the data centers for which the validator accepts a channel they returned for s
AcceptedDcs(s) ==
    {web_cha_df[i].datacenter_id :
        i \in {j \in DOMAIN web_cha_df :
                 /\ web_cha_df[j].station = s
                 /\ isin(eidavalidator, web_cha_df[j].datacenter_id,
                         web_cha_df[j].channel)}}

\* save_stations_and_channels was called and is not yet forgotten
Called == pc \in {"saved", "raised"}

\* C14: with a validator, of the data centers that returned the same station the
\* one kept is the lowest for which the validator accepts at least one of the
\* channels this data center returned for the station
C14_LowestAcceptedDc ==
    (Called /\ eidavalidator # NoValidator) =>
        \A s \in StationKeys :
            Cardinality(DcsOf(s)) > 1 =>
                KeptDcs(s) = IF AcceptedDcs(s) = {} THEN {}
                             ELSE {MinOf(AcceptedDcs(s))}

\* C15, for a call of save_stations_and_channels: at most one data center's row
\* of a station goes to the sync of the stations; a station returned by several
\* data centers of which none survives (every call of isin was false, or there is
\* no validator and the table before the call has the station under none of them)
\* has no row left; and every channel returned as saved belongs to a station and
\* data center that went to the sync
C15_Call ==
    (pc = "idle" /\ pc' \in {"saved", "raised"}) =>
        /\ \A s \in StationKeys : Cardinality(KeptDcs(s)') <= 1
        /\ \A s \in StationKeys :
              (/\ Cardinality(DcsOf(s)') > 1
               /\ IF eidavalidator' # NoValidator
                  THEN \A c \in isin_calls' :
                          c[2] = s => ~isin(eidavalidator', c[1], c[3])
                  ELSE ~\E t \in staDb : t.station = s /\ t.datacenter_id \in DcsOf(s)')
              => KeptDcs(s)' = {}
        /\ \A k \in DOMAIN channels_df' :
              \E t \in staDb', r \in sta_df' :
                  /\ t.id = channels_df'[k].station_id
                  /\ r.station = t.station
                  /\ r.datacenter_id = channels_df'[k].datacenter_id

\* C15: every call of save_stations_and_channels submits at most one data center per
\* station and returns no channel of a data center it dropped
C15_OneDcPerStation == [][C15_Call]_vars

\* a station returned by two data centers went to the sync under one of them, with
\* a validator that accepts both, and its channels were saved
C15_Witness ==
    /\ pc = "saved"
    /\ eidavalidator # NoValidator
    /\ \E s \in StationKeys :
          /\ Cardinality(DcsOf(s)) > 1
          /\ Cardinality(AcceptedDcs(s)) > 1
          /\ Cardinality(KeptDcs(s)) = 1
    /\ channels_df # <<>>

\* C16: isin is called only with station rows whose station another data center
\* returned too; when no station of the web frame was returned by two data centers
\* isin is not called at all and every station row goes to the sync
C16_IsinOnlyForDuplicates ==
    Called =>
        /\ \A c \in isin_calls : c[1] \in DcsOf(c[2]) /\ Cardinality(DcsOf(c[2])) > 1
        /\ (\A s \in StationKeys : Cardinality(DcsOf(s)) <= 1) =>
               /\ isin_calls = {}
               /\ \A s \in StationKeys : KeptDcs(s) = DcsOf(s)

\* isin was called for a duplicated station, and a station returned by one data
\* center only was kept although the validator does not name its channel
C16_Witness ==
    /\ pc = "saved"
    /\ eidavalidator # NoValidator
    /\ isin_calls # {}
    /\ \E s \in StationKeys :
          /\ Cardinality(DcsOf(s)) = 1
          /\ AcceptedDcs(s) = {}
          /\ KeptDcs(s) = DcsOf(s)

\* C20, for a call of save_stations_and_channels: every stored station keeps its
\* inventory_xml, and with the metadata update disabled it keeps every column
C20_Call ==
    (pc = "idle" /\ pc' \in {"saved", "raised"}) =>
        \A t \in staDb : \E u \in staDb' :
            /\ u.id = t.id
            /\ u.inventory_xml = t.inventory_xml
            /\ (~cfg.update_metadata => u = t)

\* C20: no call of the channels stage changes the inventory_xml of a stored station
C20_InventoryKept == [][C20_Call]_vars

\* with the metadata update enabled, a stored station that has its inventory went
\* to the sync of the stations again
C20_Witness ==
    /\ pc = "saved"
    /\ cfg.update_metadata
    /\ \E t \in staDb : t.inventory_xml /\ KeptDcs(t.station) # {}

----------------------------------------------------------------------------
(* The channel filter *)

\* the row matches a negated string of the filter in some column
MatchesNegation(row) ==
    \E i \in DOMAIN nslc : \E x \in Negations(nslc[i]) : TokensMatch(x, row[i], "*", "?")

\* C17: no row the post-filter keeps matches a negated string of the filter, in any
\* column
C17_NoNegatedRowKept ==
    pc \in {"purged", "queried"} => \A row \in purged : ~MatchesNegation(row)

\* C18: the condition of the data base fallback accepts exactly the channels the
\* web path accepts
C18_DbFilterIsWebFilter ==
    pc = "queried" => from_db = purged

\* C19: the POST data holds no `!`; a list that is empty or has only negations is
\* sent as *, and an empty location as -- in the third field
C19_PostData ==
    pc \in {"posted", "purged", "queried"} =>
        LET fields == Split(postdata, " ")
        IN /\ \A k \in DOMAIN postdata : postdata[k] # "!"
           /\ Len(fields) = 6
           /\ \A i \in DOMAIN nslc :
                 (\A k \in DOMAIN nslc[i] : IsNegation(nslc[i][k])) => fields[i] = <<"*">>
           /\ nslc[3] = <<<<>>>> => fields[3] = <<"-", "-">>

----------------------------------------------------------------------------
(* The channels stage with no channel *)

\* the run has returned from the channels stage with no channel: no station service
\* gave a channel of an accepted sample rate, and the data base has no channel of a
\* data center that failed
NoChannelFound ==
    /\ pc = "returned"
    /\ \A d \in DcIds :
          /\ responses.cha[d] \in {"fail", "low"}
          /\ responses.cha[d] = "fail" => \A t \in staDb : t.datacenter_id # d

\* C21: a run whose channels stage ends with no channel, from the web or from the
\* data base, returns a non-zero value
C21_NoChannelIsError ==
    NoChannelFound => exit_code \notin {0, NULL}

----------------------------------------------------------------------------
(* The buffer size of the DB-writing stages *)

\* C30: the buffer size run hands to the stages that write to the data base is the
\* configured db_buf_size, whenever that is at least 1
C30_BufSizeIsConfigured ==
    (download_id >= 1 /\ cfg.db_buf_size >= 1) => dbbufsize = cfg.db_buf_size

----------------------------------------------------------------------------
(* The frame get_channels_df returns *)

\* C26: every row of the frame get_channels_df returned has the id of a channel of
\* a stored station, and no id is in two rows
C26_KeyedOnChannelId ==
    pc = "merge" =>
        \A i, j \in DOMAIN channels_df :
            /\ channels_df[i].id # NULL
            /\ \E t \in staDb : /\ t.id = channels_df[i].station_id
                                /\ channels_df[i].id = ChannelId(t.id, 1)
            /\ channels_df[i].id = channels_df[j].id => i = j

----------------------------------------------------------------------------
(* The stations that end near an event *)

\* merge_events_stations paired the event with the channel
Paired(evt, ch) ==
    \E i \in DOMAIN candidates :
        candidates[i].event_id = evt /\ candidates[i].channel_id = ch.id

\* the calls of merge_events_stations with a station that has an end time and
\* started before the event
EndingStations ==
    {<<events_df[k], channels_df[i]>> : k \in DOMAIN events_df, i \in DOMAIN channels_df}
    \cap {x \in EventIds \X Range(channels_df) :
             x[2].end_time # NULL /\ x[2].start_time <= EvTime(x[1])}

\* C22, as stated: an event exactly one day before the end of the station is paired
\* with it, an event one second earlier is not
C22_EarlierEventExcluded ==
    pc \in {"merged", "raised"} =>
        \A x \in EndingStations :
            /\ EvTime(x[1]) = x[2].end_time - HalfSecPerDay => Paired(x[1], x[2])
            /\ EvTime(x[1]) = x[2].end_time - HalfSecPerDay - 2 => ~Paired(x[1], x[2])

\* C22, amended: an event exactly one day before the end of the station is paired
\* with it, and so is an event one second earlier; an event one second later is not
C22_LaterEventExcluded ==
    pc \in {"merged", "raised"} =>
        \A x \in EndingStations :
            /\ EvTime(x[1]) = x[2].end_time - HalfSecPerDay => Paired(x[1], x[2])
            /\ EvTime(x[1]) = x[2].end_time - HalfSecPerDay - 2 => Paired(x[1], x[2])
            /\ EvTime(x[1]) = x[2].end_time - HalfSecPerDay + 2 => ~Paired(x[1], x[2])

\* a call with a station that ends exactly one day after an event, and a station
\* that ends a second less than one day after an event and is paired with another
C22_Witness ==
    /\ pc = "merged"
    /\ \E x \in EndingStations :
          EvTime(x[1]) = x[2].end_time - HalfSecPerDay /\ Paired(x[1], x[2])
    /\ \E x \in EndingStations :
          /\ EvTime(x[1]) = x[2].end_time - HalfSecPerDay + 2
          /\ ~Paired(x[1], x[2])

----------------------------------------------------------------------------
(* The memory watchdog of read_async *)

\* the consumer has asked for the result after each of the results it was given
AskedForNext == pc \in {"fetching", "fetched", "quit"} /\ ~check_due

\* the memory was sampled once every check_mem_step results, the first time after
\* the first result
SampledEveryStep ==
    /\ \A k \in DOMAIN samples : samples[k].after = (k - 1) * check_mem_step + 1
    /\ (AskedForNext /\ ncalls >= 1) =>
          Len(samples) = ((ncalls - 1) \div check_mem_step) + 1

\* a sample above the threshold is the last one: the iteration ended with
\* QuitDownload(MemoryError) and no result was given after it
StoppedByOverflow ==
    \A k \in DOMAIN samples :
        samples[k].mem_percent > max_mem_consumption =>
            /\ pc = "quit"
            /\ k = Len(samples)
            /\ ncalls = samples[k].after

\* C23, as stated: with every threshold the memory is sampled once every
\* check_mem_step results, from the first on, and a sample above the threshold stops
\* the iteration with QuitDownload(MemoryError) before any further result
C23_EveryThresholdWatched ==
    SampledEveryStep /\ StoppedByOverflow

\* C23, amended: so it is with every threshold above 0 and below 100; with any
\* other threshold the memory is not sampled and the iteration is never stopped
C23_ThresholdsInsideWatched ==
    IF Watching(max_mem_consumption)
    THEN SampledEveryStep /\ StoppedByOverflow
    ELSE samples = <<>> /\ pc # "quit"

\* the second sample, after the result at position check_mem_step, was above the
\* threshold
C23_Witness ==
    /\ pc = "quit"
    /\ Len(samples) = 2
    /\ samples[1].mem_percent <= max_mem_consumption
    /\ ncalls = check_mem_step + 1
    /\ Cardinality(delivered) = check_mem_step + 1

----------------------------------------------------------------------------
(* The results of the fetcher *)

\* the results given so far answer distinct items of the input, each with the tag
\* of its item, and a URLError is given as the error of its result
OneResultPerItem ==
    /\ ncalls = Cardinality(delivered)
    /\ \A r \in delivered : r.obj \in iterable /\ (r.exc <=> r.obj \in urlerrors)
    /\ \A r, q \in delivered : r.obj = q.obj => r = q

----------------------------------------------------------------------------
(* The cancellation of the fetcher *)

\* C25: once the consumer asked to stop, no result is given to it any more; when
\* the fetcher is over every other work unit was reported as cancelled or, read by a
\* worker meanwhile, had its result dropped; every callback ran on the main thread
C25_Step ==
    /\ kill => (ncalls' = ncalls /\ delivered' = delivered)
    /\ \A c \in callers : c.thread = "main"
    /\ pc = "closed" =>
          /\ {r.obj : r \in delivered} \cup cancelled \cup discarded = iterable
          /\ cancelled \cap discarded = {}
          /\ \A r \in delivered : r.obj \notin cancelled \cup discarded
          /\ (cancelled # {} => [callback |-> "oncanc", thread |-> "main"] \in callers)

----------------------------------------------------------------------------
(* The statistics of download_save_segments, cell by cell *)

\* the cell of the statistics of a data center and a code
StatsCell(dc, code) == IF <<dc, code>> \in DOMAIN stats THEN stats[<<dc, code>>] ELSE 0

\* the rows of a data center handed to segmanager.add with a code
AddedWith(dc, code) ==
    {k \in DOMAIN added : added[k].datacenter_id = dc /\ added[k].download_code = code}

----------------------------------------------------------------------------
(* The arrival order of the responses of download_save_segments *)

\* the requests whose result was handed to the DbManager: pass and group
HandedOver == {<<added[k].pass, added[k].key>> : k \in DOMAIN added}

\* the rows handed over for a request
RowsOf(g) == {k \in DOMAIN added : <<added[k].pass, added[k].key>> = g}

\* the result read_async gave for a request
AnswerOf(g) ==
    LET k == CHOOSE k \in RowsOf(g) : TRUE
    IN [kind |-> added[k].resp, code |-> added[k].http,
        resdict |-> IF added[k].resp = "mseed"
                    THEN [c \in {added[j].channel_id : j \in RowsOf(g)} |->
                            added[CHOOSE j \in RowsOf(g) : added[j].channel_id = c].record]
                    ELSE <<>>]

\* the segments stored when download_save_segments was called: the rows of the
\* table but those inserted by this call
StoredBefore ==
    {s \in segDb : ~ \E k \in DOMAIN added :
                       /\ added[k].id = NULL
                       /\ added[k].channel_id = s.channel_id
                       /\ added[k].event_id = s.event_id}

\* every order of the elements of a set
Orders(S) ==
    {f \in [1..Cardinality(S) -> S] : \A i, j \in DOMAIN f : f[i] = f[j] => i = j}

\* every order the results of the answered requests may arrive in: the requests of
\* the first pass in any order, then those of the second pass in any order
ArrivalOrders ==
    {a \o b : a \in Orders({g \in HandedOver : g[1] = 1}),
              b \in Orders({g \in HandedOver : g[1] = 2})}

\* download_save_segments with the results arriving in a given order: each result
\* is classified and handed to the DbManager, which is flushed between the passes
\* and at the end.  st = [db, nextId, m, stats]
RECURSIVE InOrder(_, _, _)
InOrder(st, order, pass) ==
    IF order = <<>> THEN Flush(st, update_tb)
    ELSE LET g == Head(order)
             s0 == IF g[1] = pass THEN st ELSE Flush(st, update_tb)
             pr == ProcessResult(GroupDf(plan, g[1], g[2]), AnswerOf(g), g[2][1],
                                 download_id, s0.stats)
             s1 == Add(s0, pr.df, dbbufsize, update_tb)
         IN InOrder([s1 EXCEPT !.stats = pr.stats], Tail(order), g[1])

\* what the claim compares: the stored rows with their download_code, data and
\* download_id, and the statistics
Persisted(db) ==
    {[channel_id |-> s.channel_id, event_id |-> s.event_id,
      download_code |-> s.download_code, data |-> s.data,
      download_id |-> s.download_id] : s \in db}

Outcome(order) ==
    LET st == InOrder([db |-> StoredBefore, nextId |-> nextId, m |-> NewManager,
                       stats |-> <<>>], order, 1)
    IN [rows |-> Persisted(st.db), stats |-> st.stats]

\* download_save_segments has returned to run without an abort
Downloaded == pc \in {"inventory", "returned"} /\ group_idx = 0 /\ added # <<>>

\* the order the results did arrive in
ArrivedAs ==
    CHOOSE o \in ArrivalOrders :
        \A i, j \in DOMAIN o :
            i < j => \A k \in RowsOf(o[i]), l \in RowsOf(o[j]) : k < l

\* the model of the orders agrees with the run: the results in the order they
\* arrived in give what is stored
ReplayIsRun ==
    Downloaded => Outcome(ArrivedAs) = [rows |-> Persisted(segDb), stats |-> stats]

\* C28: when download_save_segments returns without an abort, the rows it stored,
\* with their download_code, data and download_id, and the statistics it returns are
\* what every other arrival order of the same responses gives
C28_AnyArrivalOrder ==
    Downloaded =>
        \A o \in ArrivalOrders :
            Outcome(o) = [rows |-> Persisted(segDb), stats |-> stats]

----------------------------------------------------------------------------
(* The data center of a segment downloaded again *)

\* the rows of stored segments handed to the DbManager: their request was sent to
\* the data center of the planned row, datcen_id2url[obj[0][0]]
Redownloaded == {k \in DOMAIN added : added[k].id # NULL}

\* C29: when download_save_segments has returned, a stored segment that was
\* downloaded again has the datacenter_id of the data center its request was sent to
C29_StoredWhereAsked ==
    Downloaded =>
        \A k \in Redownloaded :
            \A s \in segDb :
                s.id = added[k].id => s.datacenter_id = added[k].datacenter_id

====
